---- MODULE Spec2Model ----
(***************************************************************************)
(* A model of bigint-runtime (src/src/bigint-runtime.ts): sign-magnitude   *)
(* big integers over 30-bit digits.  A JSBI object is the record           *)
(*   [kind |-> "value", sign |-> BOOLEAN, digits |-> sequence of digits]   *)
(* with the least significant digit first (digits[i+1] is this[i]).  A     *)
(* call that throws yields [kind |-> "RangeError"] or [kind |-> "Error"].  *)
(* A string is the sequence of its code units.  An object that the caller  *)
(* holds carries one more field, id, which a copy or a new object lacks    *)
(* and which a write in place keeps.                                       *)
(* Host numbers are 32-bit where the code makes them so; every operator    *)
(* below keeps its intermediate values inside the range the code's own     *)
(* arithmetic stays in, and says so where a JavaScript expression had to   *)
(* be split to stay below 2^31.                                            *)
(***************************************************************************)
EXTENDS Integers, Sequences, FiniteSets, TLC

VARIABLES maxLength, x, y, n, op, res, origin, view, before, text, budget, pool,
          num, scratch, stale, sample

vars == <<maxLength, x, y, n, op, res, origin, view, before, text, budget, pool,
          num, scratch, stale, sample>>

(***************************************************************************)
(* Bounds of the model.                                                    *)
(***************************************************************************)
\* Most digits of an operand drawn in Init, and of a result that is fed back.
MaxLen == 2
\* Calls in a row in the chained specification SpecSeq.
MaxCalls == 2
\* Largest exponent the Exponentiate action is offered when the base is big.
MaxExp == 3
\* Largest shift distance to the left (and exponent of 2) that is carried out;
\* beyond it only the distances that end in a RangeError are offered.
MaxShift == 61
\* The digit limit of the scaled-down build that SpecSmall runs.
MaxLengthSmall == 3

(***************************************************************************)
(* Program constants.                                                      *)
(***************************************************************************)
\* 0x3FFFFFFF, the 30-bit digit mask.
kDigitMask == 1073741823
\* 0x7FFF, the 15-bit half-digit mask.
kHalfMask == 32767
\* 1 << 25, the value of __kMaxLength in the program.
kMaxLength == 33554432
\* The limit is read from the state, where no action changes it: Spec and
\* SpecSeq run the program as built, and SpecSmall runs it built with a limit
\* of MaxLengthSmall digits, which brings values of full length within reach.
__kMaxLength == maxLength
__kMaxLengthBits == __kMaxLength * 32
\* What reading a slot of `new JSBI(length)` gives before it is written.
Hole == -1

(***************************************************************************)
(* Host arithmetic.                                                        *)
(***************************************************************************)
Pow2(k) == 2 ^ k
Max(a, b) == IF a >= b THEN a ELSE b
Min(a, b) == IF a <= b THEN a ELSE b

RECURSIVE BitAnd(_, _)
\* a & b for 0 <= a, b < 2^31.
BitAnd(a, b) ==
  IF a = 0 \/ b = 0 THEN 0
  ELSE (IF a % 2 = 1 /\ b % 2 = 1 THEN 1 ELSE 0) + 2 * BitAnd(a \div 2, b \div 2)

RECURSIVE BitOr(_, _)
\* a | b for 0 <= a, b < 2^31.
BitOr(a, b) ==
  IF a = 0 THEN b
  ELSE IF b = 0 THEN a
  ELSE (IF a % 2 = 1 \/ b % 2 = 1 THEN 1 ELSE 0) + 2 * BitOr(a \div 2, b \div 2)

RECURSIVE BitXor(_, _)
\* a ^ b for 0 <= a, b < 2^31.
BitXor(a, b) ==
  IF a = 0 THEN b
  ELSE IF b = 0 THEN a
  ELSE (IF (a % 2) # (b % 2) THEN 1 ELSE 0) + 2 * BitXor(a \div 2, b \div 2)

\* a & ~b for 0 <= a, b < 2^30: the bits of a that b does not have.
BitAndNot(a, b) == a - BitAnd(a, b)

\* Math.clz32(v) - 2 for 0 <= v < 2^30 (clz32(0) is 32).
RECURSIVE BitLength(_)
BitLength(v) == IF v = 0 THEN 0 ELSE 1 + BitLength(v \div 2)
__clz30(v) == 30 - BitLength(v)
__clz15(v) == __clz30(v) - 15

\* ((d << s) & 0x3FFFFFFF) for a digit d and 0 <= s < 30: the 32-bit wrap of
\* d << s only loses bits the mask drops anyway.
ShlDigit(d, s) == (d % Pow2(30 - s)) * Pow2(s)

\* (v << drop) >>> drop with drop = 32 - k, 0 < k < 30: the low k bits of v.
LowBits(v, k) == v % Pow2(k)

(***************************************************************************)
(* Digit layer.                                                            *)
(***************************************************************************)
JSBI(sign, digits) == [kind |-> "value", sign |-> sign, digits |-> digits]
Throw(kind) == [kind |-> kind, sign |-> FALSE, digits |-> <<>>]
IsValue(r) == r.kind = "value"

\* The object v as the caller holds it and passes it as the operand `name`.
Handed(v, name) == [kind |-> v.kind, sign |-> v.sign, digits |-> v.digits, id |-> name]
\* Which operand object r is, or "new" for one made during the call.
Origin(r) == IF "id" \in DOMAIN r THEN r.id ELSE "new"
\* What r holds, whichever object it is.
Plain(r) == [kind |-> r.kind, sign |-> r.sign, digits |-> r.digits]

\* new JSBI(length, sign): length slots, none written yet.
NewDigits(length) == [k \in 1..length |-> Hole]

\* this[i]; undefined (a hole) past the end.
Digit(d, i) == IF i >= 0 /\ i < Len(d) THEN d[i + 1] ELSE Hole

\* this[i] = digit | 0; an Array grows when written past its end.
SetDigit(d, i, v) ==
  [k \in 1..(IF i < Len(d) THEN Len(d) ELSE i + 1) |->
     IF k = i + 1 THEN v ELSE IF k <= Len(d) THEN d[k] ELSE Hole]

__halfDigit(d, i) ==
  LET w == Digit(d, i \div 2)
  IN IF w = Hole THEN 0
     ELSE IF i % 2 = 1 THEN (w \div 32768) % 32768 ELSE w % 32768

__halfDigitLength(d) ==
  IF d[Len(d)] <= kHalfMask THEN Len(d) * 2 - 1 ELSE Len(d) * 2

__zero == JSBI(FALSE, <<>>)
__oneDigit(value, sign) == JSBI(sign, <<value>>)
__copy(j) == JSBI(j.sign, j.digits)

RECURSIVE TrimDigits(_)
TrimDigits(d) ==
  IF Len(d) > 0 /\ d[Len(d)] = 0 THEN TrimDigits(SubSeq(d, 1, Len(d) - 1)) ELSE d

__trim_keepsSign(j) == [j EXCEPT !.digits = TrimDigits(j.digits)]

\* In place: the object trimmed is the object returned.
__trim(j) ==
  LET d == TrimDigits(j.digits)
  IN [j EXCEPT !.digits = d, !.sign = IF Len(d) = 0 THEN FALSE ELSE j.sign]

__clzmsd(j) == __clz30(j.digits[Len(j.digits)])

\* unaryMinus that flips the sign of its operand instead of that of a copy.
unaryMinus_inPlace(j) == IF Len(j.digits) = 0 THEN j ELSE [j EXCEPT !.sign = ~j.sign]

unaryMinus(j) == IF Len(j.digits) = 0 THEN j ELSE JSBI(~j.sign, j.digits)

__absoluteCompare(a, b) ==
  LET diff == Len(a.digits) - Len(b.digits)
      differ == {i \in 1..Len(a.digits) : a.digits[i] # b.digits[i]}
      top == CHOOSE i \in differ : \A k \in differ : k <= i
  IN IF diff # 0 THEN diff
     ELSE IF differ = {} THEN 0
     ELSE IF a.digits[top] > b.digits[top] THEN 1 ELSE -1

\* A boolean that a call returned, as an outcome.
Boolean(b) == [kind |-> IF b THEN "true" ELSE "false", sign |-> FALSE, digits |-> <<>>]

__unequalSign(leftNegative) == IF leftNegative THEN -1 ELSE 1

\* Two negative operands ordered as their absolute values are.
__absoluteGreater_ignoresSign(bothNegative) == 1

__absoluteGreater(bothNegative) == IF bothNegative THEN -1 ELSE 1
__absoluteLess(bothNegative) == IF bothNegative THEN 1 ELSE -1

__compareToBigInt(a, b) ==
  IF a.sign # b.sign THEN __unequalSign(a.sign)
  ELSE IF __absoluteCompare(a, b) > 0 THEN __absoluteGreater(a.sign)
  ELSE IF __absoluteCompare(a, b) < 0 THEN __absoluteLess(a.sign)
  ELSE 0

lessThan(a, b) == __compareToBigInt(a, b) < 0
lessThanOrEqual(a, b) == __compareToBigInt(a, b) <= 0
greaterThan(a, b) == __compareToBigInt(a, b) > 0
greaterThanOrEqual(a, b) == __compareToBigInt(a, b) >= 0

equal(a, b) ==
  IF a.sign # b.sign THEN FALSE
  ELSE IF Len(a.digits) # Len(b.digits) THEN FALSE
  ELSE \A i \in 1..Len(a.digits) : a.digits[i] = b.digits[i]

notEqual(a, b) == ~equal(a, b)

(***************************************************************************)
(* Additive core.                                                          *)
(***************************************************************************)
RECURSIVE AddPairs(_, _, _, _, _)
\* The two loops of __absoluteAdd from index i on: the digits of x plus those
\* of y (while there are any) plus the carry, written into result.
AddPairs(xd, yd, i, carry, result) ==
  IF i < Len(xd)
  THEN LET r == xd[i + 1] + (IF i < Len(yd) THEN yd[i + 1] ELSE 0) + carry
       IN AddPairs(xd, yd, i + 1, r \div Pow2(30), SetDigit(result, i, r % Pow2(30)))
  ELSE IF i < Len(result) THEN SetDigit(result, i, carry) ELSE result

RECURSIVE __absoluteAdd(_, _, _)
__absoluteAdd(a, b, resultSign) ==
  IF Len(a.digits) < Len(b.digits) THEN __absoluteAdd(b, a, resultSign)
  ELSE IF Len(a.digits) = 0 THEN a
  ELSE IF Len(b.digits) = 0 THEN (IF a.sign = resultSign THEN a ELSE unaryMinus(a))
  ELSE LET resultLength ==
             IF __clzmsd(a) = 0 \/ (Len(b.digits) = Len(a.digits) /\ __clzmsd(b) = 0)
             THEN Len(a.digits) + 1 ELSE Len(a.digits)
       IN IF resultLength > __kMaxLength THEN Throw("RangeError")
          ELSE __trim(JSBI(resultSign,
                           AddPairs(a.digits, b.digits, 0, 0, NewDigits(resultLength))))

RECURSIVE SubPairs(_, _, _, _, _)
\* The two loops of __absoluteSub.  r may be negative: r & 0x3FFFFFFF is r
\* modulo 2^30 and (r >>> 30) & 1 is bit 30 of its two's complement.
SubPairs(xd, yd, i, borrow, result) ==
  IF i < Len(xd)
  THEN LET r == xd[i + 1] - (IF i < Len(yd) THEN yd[i + 1] ELSE 0) - borrow
       IN SubPairs(xd, yd, i + 1, (r \div Pow2(30)) % 2, SetDigit(result, i, r % Pow2(30)))
  ELSE result

\* __absoluteSub that, for a zero subtrahend, sets the wanted sign on x.
__absoluteSub_setsSign(a, b, resultSign) ==
  IF Len(a.digits) = 0 THEN a
  ELSE IF Len(b.digits) = 0 THEN [a EXCEPT !.sign = resultSign]
  ELSE __trim(JSBI(resultSign,
                   SubPairs(a.digits, b.digits, 0, 0, NewDigits(Len(a.digits)))))

__absoluteSub(a, b, resultSign) ==
  IF Len(a.digits) = 0 THEN a
  ELSE IF Len(b.digits) = 0 THEN (IF a.sign = resultSign THEN a ELSE unaryMinus(a))
  ELSE __trim(JSBI(resultSign,
                   SubPairs(a.digits, b.digits, 0, 0, NewDigits(Len(a.digits)))))

\* add that gives the difference the sign of x whichever magnitude is larger.
add_keepsSign(a, b) ==
  IF a.sign = b.sign THEN __absoluteAdd(a, b, a.sign)
  ELSE IF __absoluteCompare(a, b) >= 0 THEN __absoluteSub(a, b, a.sign)
  ELSE __absoluteSub(b, a, a.sign)

add(a, b) ==
  IF a.sign = b.sign THEN __absoluteAdd(a, b, a.sign)
  ELSE IF __absoluteCompare(a, b) >= 0 THEN __absoluteSub(a, b, a.sign)
  ELSE __absoluteSub(b, a, ~a.sign)

subtract(a, b) ==
  IF a.sign # b.sign THEN __absoluteAdd(a, b, a.sign)
  ELSE IF __absoluteCompare(a, b) >= 0 THEN __absoluteSub(a, b, a.sign)
  ELSE __absoluteSub(b, a, ~a.sign)

(***************************************************************************)
(* Multiplicative core.                                                    *)
(***************************************************************************)
RECURSIVE SumBy30(_, _, _)
\* The exact sum of a few host numbers, each in 0..2^30, as its bits from 30
\* up (hi) and its low 30 bits (lo).  The code forms such sums in one double
\* (they stay below 2^32) and takes them apart with >>> 30 and & 0x3FFFFFFF.
SumBy30(terms, hi, lo) ==
  IF terms = <<>> THEN [hi |-> hi, lo |-> lo]
  ELSE LET t == lo + Head(terms)
       IN SumBy30(Tail(terms), hi + t \div Pow2(30), t % Pow2(30))

Sum30(terms) == SumBy30(terms, 0, 0)

RECURSIVE MulAccPairs(_, _, _, _, _, _, _, _)
\* The first loop of __multiplyAccumulate: st is [acc, oob], the accumulator
\* and whether a slot past its end was read.
MulAccPairs(md, m2Low, m2High, i, ai, carry, high, st) ==
  IF i < Len(md)
  THEN LET acc0 == Digit(st.acc, ai)
           m1 == md[i + 1]
           m1Low == m1 % 32768
           m1High == m1 \div 32768
           rLow == m1Low * m2Low
           rMid1 == m1Low * m2High
           rMid2 == m1High * m2Low
           rHigh == m1High * m2High
           \* acc += high + rLow + carry; carry = acc >>> 30; acc &= 0x3FFFFFFF
           \* (undefined + number is NaN, and NaN >>> 30 and NaN & mask are 0)
           s1 == IF acc0 = Hole THEN [hi |-> 0, lo |-> 0]
                 ELSE Sum30(<<acc0, high, rLow, carry>>)
           \* acc += ((rMid1 & 0x7FFF) << 15) + ((rMid2 & 0x7FFF) << 15)
           s2 == Sum30(<<s1.lo, (rMid1 % 32768) * 32768, (rMid2 % 32768) * 32768>>)
       IN MulAccPairs(md, m2Low, m2High, i + 1, ai + 1,
                      s1.hi + s2.hi,
                      rHigh + rMid1 \div 32768 + rMid2 \div 32768,
                      [acc |-> SetDigit(st.acc, ai, s2.lo),
                       oob |-> st.oob \/ ai >= Len(st.acc)])
  ELSE [st |-> st, ai |-> ai, carry |-> carry, high |-> high]

RECURSIVE MulAccCarry(_, _, _, _)
\* The second loop of __multiplyAccumulate: for(; carry !== 0 || high !== 0;).
MulAccCarry(ai, carry, high, st) ==
  IF carry # 0 \/ high # 0
  THEN LET acc0 == Digit(st.acc, ai)
           s == IF acc0 = Hole THEN [hi |-> 0, lo |-> 0] ELSE Sum30(<<acc0, carry, high>>)
       IN MulAccCarry(ai + 1, s.hi, 0,
                      [acc |-> SetDigit(st.acc, ai, s.lo),
                       oob |-> st.oob \/ ai >= Len(st.acc)])
  ELSE st

__multiplyAccumulate(multiplicand, multiplier, st, accumulatorIndex) ==
  IF multiplier = 0 THEN st
  ELSE LET p == MulAccPairs(multiplicand.digits, multiplier % 32768, multiplier \div 32768,
                            0, accumulatorIndex, 0, 0, st)
       IN MulAccCarry(p.ai, p.carry, p.high, p.st)

RECURSIVE MultiplyRows(_, _, _, _)
\* for(let i = 0; i < x.length; i++) __multiplyAccumulate(y, x.__digit(i), result, i)
MultiplyRows(a, b, i, st) ==
  IF i < Len(a.digits)
  THEN MultiplyRows(a, b, i + 1, __multiplyAccumulate(b, a.digits[i + 1], st, i))
  ELSE st

\* multiply with the shrink test off by one (>= 29).
multiplyLength_shrinkAt29(a, b) ==
  IF __clzmsd(a) + __clzmsd(b) >= 29
  THEN Len(a.digits) + Len(b.digits) - 1 ELSE Len(a.digits) + Len(b.digits)

\* resultLength of multiply, for non-zero operands.
multiplyLength(a, b) ==
  IF __clzmsd(a) + __clzmsd(b) >= 30
  THEN Len(a.digits) + Len(b.digits) - 1 ELSE Len(a.digits) + Len(b.digits)

\* The result buffer of multiply after its loop and before __trim, with the
\* out-of-bounds flag of the accumulation.
multiplyBuffer(a, b) ==
  MultiplyRows(a, b, 0, [acc |-> [k \in 1..multiplyLength(a, b) |-> 0], oob |-> FALSE])

multiply(a, b) ==
  IF Len(a.digits) = 0 THEN a
  ELSE IF Len(b.digits) = 0 THEN b
  ELSE IF multiplyLength(a, b) > __kMaxLength THEN Throw("RangeError")
  ELSE __trim(JSBI(a.sign # b.sign, multiplyBuffer(a, b).acc))

(***************************************************************************)
(* Division core.                                                          *)
(***************************************************************************)
RECURSIVE DivSmallSteps(_, _, _, _, _)
\* The loop of __absoluteDivSmall, i from x.length * 2 - 1 down in steps of 2.
\* ((remainder << 15) | half) >>> 0 is remainder * 2^15 + half, remainder
\* being below the 15-bit divisor.
DivSmallSteps(xd, divisor, i, remainder, quotient) ==
  IF i >= 0
  THEN LET input1 == remainder * 32768 + __halfDigit(xd, i)
           upperHalf == input1 \div divisor
           rem1 == input1 % divisor
           input2 == rem1 * 32768 + __halfDigit(xd, i - 1)
           lowerHalf == input2 \div divisor
       IN DivSmallSteps(xd, divisor, i - 2, input2 % divisor,
                        SetDigit(quotient, i \div 2, upperHalf * 32768 + lowerHalf))
  ELSE quotient

__absoluteDivSmall(a, divisor) ==
  JSBI(FALSE, DivSmallSteps(a.digits, divisor, Len(a.digits) * 2 - 1, 0,
                            NewDigits(Len(a.digits))))

RECURSIVE ModSmallSteps(_, _, _, _)
ModSmallSteps(xd, divisor, i, remainder) ==
  IF i >= 0
  THEN ModSmallSteps(xd, divisor, i - 1, (remainder * 32768 + __halfDigit(xd, i)) % divisor)
  ELSE remainder

__absoluteModSmall(a, divisor) ==
  ModSmallSteps(a.digits, divisor, Len(a.digits) * 2 - 1, 0)

RECURSIVE SpecialShiftDigits(_, _, _, _, _, _)
SpecialShiftDigits(xd, shift, addDigit, i, carry, result) ==
  IF i < Len(xd)
  THEN SpecialShiftDigits(xd, shift, addDigit, i + 1, xd[i + 1] \div Pow2(30 - shift),
                          SetDigit(result, i, ShlDigit(xd[i + 1], shift) + carry))
  ELSE IF addDigit > 0 THEN SetDigit(result, Len(xd), carry) ELSE result

\* The digits of __specialLeftShift(x, shift, addDigit).
__specialLeftShift(xd, shift, addDigit) ==
  IF shift = 0
  THEN [k \in 1..(Len(xd) + addDigit) |-> IF k <= Len(xd) THEN xd[k] ELSE 0]
  ELSE SpecialShiftDigits(xd, shift, addDigit, 0, 0, NewDigits(Len(xd) + addDigit))

RECURSIVE InplaceRightShiftDigits(_, _, _, _)
InplaceRightShiftDigits(d, shift, i, carry) ==
  IF i < Len(d) - 1
  THEN LET w == d[i + 2]
       IN InplaceRightShiftDigits(SetDigit(d, i, ShlDigit(w, 30 - shift) + carry),
                                  shift, i + 1, w \div Pow2(shift))
  ELSE SetDigit(d, Len(d) - 1, carry)

__inplaceRightShift(d, shift) ==
  IF shift = 0 THEN d ELSE InplaceRightShiftDigits(d, shift, 0, d[1] \div Pow2(shift))

RECURSIVE InternalMultiplyAddDigits(_, _, _, _, _, _, _)
\* The loop of __internalMultiplyAdd; bug is set where the code throws
\* 'implementation bug'.
InternalMultiplyAddDigits(source, factor, k, i, carry, high, result) ==
  IF i < k
  THEN LET digit == source[i + 1]
           rx == (digit % 32768) * factor
           ry == (digit \div 32768) * factor
           r == Sum30(<<rx, (ry % 32768) * 32768, high, carry>>)
       IN InternalMultiplyAddDigits(source, factor, k, i + 1, r.hi, ry \div 32768,
                                    SetDigit(result, i, r.lo))
  ELSE IF Len(result) > k
       THEN [d |-> [j \in 1..Len(result) |->
                      IF j <= k THEN result[j] ELSE IF j = k + 1 THEN carry + high ELSE 0],
             bug |-> FALSE]
       ELSE [d |-> result, bug |-> carry + high # 0]

__internalMultiplyAdd(source, factor, summand, k, result) ==
  InternalMultiplyAddDigits(source, factor, k, 0, summand, 0, result)

\* A digit as a bitwise operator sees it: undefined counts as 0.
DigitBits(d, i) == IF Digit(d, i) = Hole THEN 0 ELSE Digit(d, i)

__setHalfDigit(d, i, value) ==
  LET previous == DigitBits(d, i \div 2)
  IN SetDigit(d, i \div 2,
              IF i % 2 = 1 THEN (previous % 32768) + value * 32768
              ELSE (previous \div 32768) * 32768 + (value % 32768))

RECURSIVE InplaceAddHalves(_, _, _, _, _, _)
InplaceAddHalves(d, summand, startIndex, halfDigits, i, carry) ==
  IF i < halfDigits
  THEN LET sum == __halfDigit(d, startIndex + i) + __halfDigit(summand, i) + carry
       IN InplaceAddHalves(__setHalfDigit(d, startIndex + i, sum % 32768),
                           summand, startIndex, halfDigits, i + 1, sum \div 32768)
  ELSE [d |-> d, c |-> carry]

__inplaceAdd(d, summand, startIndex, halfDigits) ==
  InplaceAddHalves(d, summand, startIndex, halfDigits, 0, 0)

\* r15 and r0 of __inplaceSub lie in -2^15 .. 2^15 - 1: (r >>> 15) & 1 is bit
\* 15 of the two's complement and r & 0x7FFF is r modulo 2^15.
Borrow15(r) == (r \div 32768) % 2
PackHalves(r15, r0) == (r15 % 32768) * 32768 + (r0 % 32768)

RECURSIVE InplaceSubOddSteps(_, _, _, _, _, _, _, _)
\* The loop of the (startIndex & 1) branch of __inplaceSub.
InplaceSubOddSteps(d, sd, si, fullSteps, i, current, r0, borrow) ==
  IF i < fullSteps
  THEN LET sub == DigitBits(sd, i)
           r15 == (current \div 32768) - (sub % 32768) - borrow
           d1 == SetDigit(d, si + i, PackHalves(r15, r0))
           current1 == DigitBits(d1, si + i + 1)
           r01 == (current1 % 32768) - (sub \div 32768) - Borrow15(r15)
       IN InplaceSubOddSteps(d1, sd, si, fullSteps, i + 1, current1, r01, Borrow15(r01))
  ELSE [d |-> d, i |-> i, current |-> current, r0 |-> r0, borrow |-> borrow]

InplaceSubOdd(d, sd, startIndex, halfDigits) ==
  LET si == startIndex \div 2
      current0 == DigitBits(d, si)
      lp == InplaceSubOddSteps(d, sd, si, (halfDigits - 1) \div 2, 0,
                               current0, current0 % 32768, 0)
      sub == DigitBits(sd, lp.i)
      r15 == (lp.current \div 32768) - (sub % 32768) - lp.borrow
      d2 == SetDigit(lp.d, si + lp.i, PackHalves(r15, lp.r0))
      subTop == sub \div 32768
      current2 == DigitBits(d2, si + lp.i + 1)
      r0 == (current2 % 32768) - subTop - Borrow15(r15)
  IN IF si + lp.i + 1 >= Len(d2) THEN [d |-> d2, c |-> Borrow15(r15), err |-> "RangeError"]
     ELSE IF halfDigits % 2 = 0
     THEN [d |-> SetDigit(d2, si + Len(sd), (current2 \div 32768) * 32768 + (r0 % 32768)),
           c |-> Borrow15(r0), err |-> "none"]
     ELSE [d |-> d2, c |-> Borrow15(r15), err |-> "none"]

RECURSIVE InplaceSubEvenSteps(_, _, _, _, _)
\* The loop of the else branch of __inplaceSub.
InplaceSubEvenSteps(d, sd, si, i, borrow) ==
  IF i < Len(sd) - 1
  THEN LET current == DigitBits(d, si + i)
           sub == DigitBits(sd, i)
           r0 == (current % 32768) - (sub % 32768) - borrow
           r15 == (current \div 32768) - (sub \div 32768) - Borrow15(r0)
       IN InplaceSubEvenSteps(SetDigit(d, si + i, PackHalves(r15, r0)), sd, si, i + 1,
                              Borrow15(r15))
  ELSE [d |-> d, i |-> i, borrow |-> borrow]

InplaceSubEven(d, sd, startIndex, halfDigits) ==
  LET si == startIndex \div 2
      lp == InplaceSubEvenSteps(d, sd, si, 0, 0)
      current == DigitBits(lp.d, si + lp.i)
      sub == DigitBits(sd, lp.i)
      r0 == (current % 32768) - (sub % 32768) - lp.borrow
      r15 == IF halfDigits % 2 = 0
             THEN (current \div 32768) - (sub \div 32768) - Borrow15(r0) ELSE 0
  IN [d |-> SetDigit(lp.d, si + lp.i, PackHalves(r15, r0)),
      c |-> IF halfDigits % 2 = 0 THEN Borrow15(r15) ELSE Borrow15(r0),
      err |-> "none"]

\* [d: the digits after the subtraction, c: the borrow returned, err].
__inplaceSub(d, sd, startIndex, halfDigits) ==
  IF startIndex % 2 = 1 THEN InplaceSubOdd(d, sd, startIndex, halfDigits)
  ELSE InplaceSubEven(d, sd, startIndex, halfDigits)

RECURSIVE QhatCorrect(_, _, _, _, _)
\* while((__imul(qhat, vn2) >>> 0) > (((rhat << 16) | ujn2) >>> 0))
\*   { qhat--; rhat += vn1; if(rhat > 0x7FFF) break; }
\* rhat << 16 has its low 16 bits clear, so | ujn2 adds the 15-bit ujn2.
QhatCorrect(qhat, rhat, vn1, vn2, ujn2) ==
  IF qhat * vn2 > rhat * 65536 + ujn2
  THEN IF rhat + vn1 > kHalfMask THEN qhat - 1
       ELSE QhatCorrect(qhat - 1, rhat + vn1, vn1, vn2, ujn2)
  ELSE qhat

\* D3: the estimate of the quotient half-digit for position j; vd is the
\* normalised divisor of k half-digits.
QhatEstimate(u, vd, j, k) ==
  LET vn1 == __halfDigit(vd, k - 1)
      ujn == __halfDigit(u, j + k)
      input == ujn * 32768 + __halfDigit(u, j + k - 1)
  IN IF ujn # vn1
     THEN QhatCorrect(input \div vn1, input % vn1, vn1,
                      __halfDigit(vd, k - 2), __halfDigit(u, j + k - 2))
     ELSE kHalfMask

\* if(c !== 0) { c = __inplaceAdd(u, divisor, j, n);
\*   u.__setHalfDigit(j + n, (u.__halfDigit(j + n) + c) & 0x7FFF); ... }
AddBackSum(ab, j, k) ==
  __setHalfDigit(ab.d, j + k, (__halfDigit(ab.d, j + k) + ab.c) % 32768)

\* The add-back that leaves the borrowed window as the subtraction left it.
AddBack_none(ud, vd, j, k) == ud

AddBack(ud, vd, j, k) == AddBackSum(__inplaceAdd(ud, vd, j, k), j, k)

\* The estimate that is one too large is kept after the add-back.
QhatAfterSub_keeps(qhat, c) == qhat

\* ... qhat--; } after a subtraction that borrowed.
QhatAfterSub(qhat, c) == IF c # 0 THEN qhat - 1 ELSE qhat

\* The end of one round of the loop: st is [u, q, qhatv, halfDigitBuffer,
\* addBacks, err], ma what __internalMultiplyAdd left in qhatv, sb what
\* __inplaceSub returned, ud the digits of u and qhat the quotient half-digit
\* after the add-back, if any.
DivLargeRecord(st, j, ma, sb, ud, qhat) ==
  [u |-> ud,
   q |-> IF j % 2 = 1 THEN st.q
         ELSE SetDigit(st.q, j \div 2, BitOr(st.halfDigitBuffer, qhat)),
   qhatv |-> ma.d,
   halfDigitBuffer |-> IF j % 2 = 1 THEN qhat * 32768 ELSE st.halfDigitBuffer,
   addBacks |-> st.addBacks + (IF sb.c # 0 THEN 1 ELSE 0),
   err |-> IF ma.bug THEN "Error" ELSE sb.err]

DivLargeAddBack(st, vd, j, k, qhat, ma, sb) ==
  DivLargeRecord(st, j, ma, sb,
                 IF sb.c # 0 THEN AddBack(sb.d, vd, j, k) ELSE sb.d,
                 QhatAfterSub(qhat, sb.c))

\* D4 once qhatv = divisor * qhat is known.
DivLargeSubtract(st, vd, j, k, qhat, ma) ==
  DivLargeAddBack(st, vd, j, k, qhat, ma, __inplaceSub(st.u, ma.d, j, k + 1))

\* D4 once the estimate is known.
DivLargeMultiply(st, vd, j, k, n2, qhat) ==
  DivLargeSubtract(st, vd, j, k, qhat, __internalMultiplyAdd(vd, qhat, 0, n2, st.qhatv))

\* One round of the loop, for position j.
DivLargeStep(st, vd, j, k, n2) ==
  DivLargeMultiply(st, vd, j, k, n2, QhatEstimate(st.u, vd, j, k))

RECURSIVE DivLargeLoop(_, _, _, _, _)
\* for(let j = m; j >= 0; j--); a throw ends the loop.
DivLargeLoop(st, vd, j, k, n2) ==
  IF j >= 0 /\ st.err = "none"
  THEN DivLargeLoop(DivLargeStep(st, vd, j, k, n2), vd, j - 1, k, n2)
  ELSE st

\* What __absoluteDivLarge returns: [q, u, err, addBacks], q the quotient
\* buffer and u the remainder buffer, neither trimmed; addBacks counts the
\* rounds that took the add-back branch.
DivLargeResult(st, shift) ==
  [q |-> st.q, u |-> __inplaceRightShift(st.u, shift), err |-> st.err,
   addBacks |-> st.addBacks]

\* The buffers before the first round: u the shifted dividend with one digit
\* more, q of (m + 2) >>> 1 digits, qhatv of (n + 2) >>> 1 digits.
DivLargeBuffers(dividend, k, m, shift) ==
  [u |-> __specialLeftShift(dividend.digits, shift, 1),
   q |-> [i \in 1..((m + 2) \div 2) |-> 0],
   qhatv |-> [i \in 1..((k + 2) \div 2) |-> 0],
   halfDigitBuffer |-> 0, addBacks |-> 0, err |-> "none"]

\* if(shift > 0) divisor = __specialLeftShift(divisor, shift, 0)
DivLargeNormalised(divisor, shift) ==
  IF shift > 0 THEN __specialLeftShift(divisor.digits, shift, 0)
  ELSE divisor.digits

\* D1 and D2 done: k and m are the half-digit counts n and m of the code.
\* new JSBI throws for qhatv, of (n + 2) >>> 1 digits, and for u, of one
\* digit more than the dividend, when they pass the limit.
DivLargeStart(dividend, divisor, k, m, shift) ==
  IF (k + 2) \div 2 > __kMaxLength \/ Len(dividend.digits) + 1 > __kMaxLength
  THEN [q |-> <<>>, u |-> <<>>, err |-> "RangeError", addBacks |-> 0]
  ELSE DivLargeResult(
    DivLargeLoop(DivLargeBuffers(dividend, k, m, shift),
                 DivLargeNormalised(divisor, shift),
                 m, k, Len(divisor.digits)),
    shift)

DivLargeLengths(dividend, divisor, k) ==
  DivLargeStart(dividend, divisor, k, __halfDigitLength(dividend.digits) - k,
                __clz15(__halfDigit(divisor.digits, k - 1)))

\* __absoluteDivLarge(dividend, divisor, true, true).
__absoluteDivLarge(dividend, divisor) ==
  DivLargeLengths(dividend, divisor, __halfDigitLength(divisor.digits))

\* quotient.sign = resultSign; return __trim(quotient), or the throw.
DivLargeQuotient(r, resultSign) ==
  IF r.err # "none" THEN Throw(r.err) ELSE __trim(JSBI(resultSign, r.q))

DivLargeRemainder(r, resultSign) ==
  IF r.err # "none" THEN Throw(r.err) ELSE __trim(JSBI(resultSign, r.u))

\* divide that answers a zero dividend before it looks at the divisor.
divide_zeroDividendFirst(a, b) ==
  IF Len(a.digits) = 0 THEN __zero
  ELSE IF Len(b.digits) = 0 THEN Throw("RangeError")
  ELSE IF __absoluteCompare(a, b) < 0 THEN __zero
  ELSE IF Len(b.digits) = 1 /\ b.digits[1] <= kHalfMask
  THEN IF b.digits[1] = 1
       THEN (IF (a.sign # b.sign) = a.sign THEN a ELSE unaryMinus(a))
       ELSE __trim(JSBI(a.sign # b.sign, __absoluteDivSmall(a, b.digits[1]).digits))
  ELSE DivLargeQuotient(__absoluteDivLarge(a, b), a.sign # b.sign)

divide(a, b) ==
  IF Len(b.digits) = 0 THEN Throw("RangeError")
  ELSE IF __absoluteCompare(a, b) < 0 THEN __zero
  ELSE IF Len(b.digits) = 1 /\ b.digits[1] <= kHalfMask
  THEN IF b.digits[1] = 1
       THEN (IF (a.sign # b.sign) = a.sign THEN a ELSE unaryMinus(a))
       ELSE __trim(JSBI(a.sign # b.sign, __absoluteDivSmall(a, b.digits[1]).digits))
  ELSE DivLargeQuotient(__absoluteDivLarge(a, b), a.sign # b.sign)

\* A nonzero remainder of the sign-free small division as one digit.
SmallRemainder(remainderDigit, sign) ==
  IF remainderDigit = 0 THEN __zero ELSE __oneDigit(remainderDigit, sign)

remainder(a, b) ==
  IF Len(b.digits) = 0 THEN Throw("RangeError")
  ELSE IF __absoluteCompare(a, b) < 0 THEN a
  ELSE IF Len(b.digits) = 1 /\ b.digits[1] <= kHalfMask
  THEN IF b.digits[1] = 1 THEN __zero
       ELSE SmallRemainder(__absoluteModSmall(a, b.digits[1]), a.sign)
  ELSE DivLargeRemainder(__absoluteDivLarge(a, b), a.sign)

(***************************************************************************)
(* Increment, decrement and the magnitude-wise bitwise helpers.            *)
(***************************************************************************)
RECURSIVE AddOneDigits(_, _, _, _)
\* __absoluteAddOne's loop over the digits of x, then the __setDigitGrow of a
\* last carry (which writes slot inputLength, growing the Array if need be).
AddOneDigits(xd, i, carry, result) ==
  IF i < Len(xd)
  THEN LET r == xd[i + 1] + carry
       IN AddOneDigits(xd, i + 1, r \div Pow2(30), SetDigit(result, i, r % Pow2(30)))
  ELSE IF carry # 0 THEN SetDigit(result, Len(xd), 1) ELSE result

\* __absoluteAddOne that loses the carry out of the top digit.
__absoluteAddOne_dropsCarry(xd, sign, result) ==
  JSBI(sign, [k \in 1..Len(xd) |-> AddOneDigits(xd, 0, 1, result)[k]])

\* __absoluteAddOne(x, sign, result): result is null (a fresh buffer of
\* x.length slots) or a buffer to write into; xd are the digits of x.
__absoluteAddOne(xd, sign, result) == JSBI(sign, AddOneDigits(xd, 0, 1, result))

RECURSIVE SubOneDigits(_, _, _, _)
SubOneDigits(xd, i, borrow, result) ==
  IF i < Len(xd)
  THEN LET r == xd[i + 1] - borrow
       IN SubOneDigits(xd, i + 1, (r \div Pow2(30)) % 2, SetDigit(result, i, r % Pow2(30)))
  ELSE [d |-> result, borrow |-> borrow]

\* __absoluteSubOne(x, resultLength): [d, err]; resultLength 0 stands for an
\* omitted argument (resultLength || length).  err is what it throws, if it
\* does: the constructor's RangeError or the Error of a borrow left over.
__absoluteSubOne(xd, resultLength) ==
  LET len == IF resultLength = 0 THEN Len(xd) ELSE resultLength
      r == SubOneDigits(xd, 0, 1, NewDigits(len))
  IN IF len > __kMaxLength THEN [d |-> <<>>, err |-> "RangeError"]
     ELSE [d |-> [k \in 1..Len(r.d) |-> IF k > Len(xd) /\ k <= len THEN 0 ELSE r.d[k]],
           err |-> IF r.borrow # 0 THEN "Error" ELSE "none"]

\* The longer and the shorter of two digit vectors (the first when equal):
\* what x and y are after the swap at the head of the symmetric helpers.
Longer(xd, yd) == IF Len(xd) < Len(yd) THEN yd ELSE xd
Shorter(xd, yd) == IF Len(xd) < Len(yd) THEN xd ELSE yd

\* In the four helpers below result is the buffer handed in when given is
\* TRUE (only its length matters: every slot of it is overwritten) and null
\* otherwise.  Each has a loop over the pairs of digits, a loop over the rest
\* of x (not in __absoluteAnd) and a loop that zeroes what is left.
AndDigits(long, short, resultLength) ==
  [k \in 1..Max(resultLength, Len(short)) |->
     IF k <= Len(short) THEN BitAnd(long[k], short[k]) ELSE 0]

__absoluteAnd(xd, yd, result, given) ==
  AndDigits(Longer(xd, yd), Shorter(xd, yd),
            IF given THEN Len(result) ELSE Min(Len(xd), Len(yd)))

\* __absoluteAndNot that forgets the complement.
__absoluteAndNot_and(xd, yd, result, given) ==
  [k \in 1..Max(IF given THEN Len(result) ELSE Len(xd), Len(xd)) |->
     IF k <= Min(Len(xd), Len(yd)) THEN BitAnd(xd[k], yd[k])
     ELSE IF k <= Len(xd) THEN xd[k]
     ELSE 0]

__absoluteAndNot(xd, yd, result, given) ==
  [k \in 1..Max(IF given THEN Len(result) ELSE Len(xd), Len(xd)) |->
     IF k <= Min(Len(xd), Len(yd)) THEN BitAndNot(xd[k], yd[k])
     ELSE IF k <= Len(xd) THEN xd[k]
     ELSE 0]

OrDigits(long, short, resultLength) ==
  [k \in 1..Max(resultLength, Len(long)) |->
     IF k <= Len(short) THEN BitOr(long[k], short[k])
     ELSE IF k <= Len(long) THEN long[k]
     ELSE 0]

__absoluteOr(xd, yd, result, given) ==
  OrDigits(Longer(xd, yd), Shorter(xd, yd),
           IF given THEN Len(result) ELSE Max(Len(xd), Len(yd)))

XorDigits(long, short, resultLength) ==
  [k \in 1..Max(resultLength, Len(long)) |->
     IF k <= Len(short) THEN BitXor(long[k], short[k])
     ELSE IF k <= Len(long) THEN long[k]
     ELSE 0]

__absoluteXor(xd, yd, result, given) ==
  XorDigits(Longer(xd, yd), Shorter(xd, yd),
            IF given THEN Len(result) ELSE Max(Len(xd), Len(yd)))

bitwiseNot(a) ==
  IF a.sign
  THEN LET s == __absoluteSubOne(a.digits, 0)
       IN IF s.err # "none" THEN Throw(s.err) ELSE __trim(JSBI(FALSE, s.d))
  ELSE __absoluteAddOne(a.digits, TRUE, NewDigits(Len(a.digits)))

\* The operand that is not negative first: [x, y] = [y, x] when x.sign.
Positive(a, b) == IF a.sign THEN b ELSE a
Negative(a, b) == IF a.sign THEN a ELSE b

bitwiseAnd(a, b) ==
  IF ~a.sign /\ ~b.sign THEN __trim(JSBI(FALSE, __absoluteAnd(a.digits, b.digits, <<>>, FALSE)))
  ELSE IF a.sign /\ b.sign
  THEN LET resultLength == Max(Len(a.digits), Len(b.digits)) + 1
           x1 == __absoluteSubOne(a.digits, resultLength)
           y1 == __absoluteSubOne(b.digits, 0)
           r == __absoluteOr(x1.d, y1.d, x1.d, TRUE)
       IN IF x1.err # "none" THEN Throw(x1.err)
          ELSE IF y1.err # "none" THEN Throw(y1.err)
          ELSE __trim(__absoluteAddOne(r, TRUE, r))
  ELSE LET y1 == __absoluteSubOne(Negative(a, b).digits, 0)
       IN IF y1.err # "none" THEN Throw(y1.err)
          ELSE __trim(JSBI(FALSE, __absoluteAndNot(Positive(a, b).digits, y1.d, <<>>, FALSE)))

bitwiseXor(a, b) ==
  IF ~a.sign /\ ~b.sign THEN __trim(JSBI(FALSE, __absoluteXor(a.digits, b.digits, <<>>, FALSE)))
  ELSE IF a.sign /\ b.sign
  THEN LET resultLength == Max(Len(a.digits), Len(b.digits))
           x1 == __absoluteSubOne(a.digits, resultLength)
           y1 == __absoluteSubOne(b.digits, 0)
       IN IF x1.err # "none" THEN Throw(x1.err)
          ELSE IF y1.err # "none" THEN Throw(y1.err)
          ELSE __trim(JSBI(FALSE, __absoluteXor(x1.d, y1.d, x1.d, TRUE)))
  ELSE LET resultLength == Max(Len(a.digits), Len(b.digits)) + 1
           y1 == __absoluteSubOne(Negative(a, b).digits, resultLength)
           r == __absoluteXor(y1.d, Positive(a, b).digits, y1.d, TRUE)
       IN IF y1.err # "none" THEN Throw(y1.err)
          ELSE __trim(__absoluteAddOne(r, TRUE, r))

bitwiseOr(a, b) ==
  LET resultLength == Max(Len(a.digits), Len(b.digits))
  IN IF ~a.sign /\ ~b.sign
     THEN __trim(JSBI(FALSE, __absoluteOr(a.digits, b.digits, <<>>, FALSE)))
     ELSE IF a.sign /\ b.sign
     THEN LET x1 == __absoluteSubOne(a.digits, resultLength)
              y1 == __absoluteSubOne(b.digits, 0)
              r == __absoluteAnd(x1.d, y1.d, x1.d, TRUE)
          IN IF x1.err # "none" THEN Throw(x1.err)
             ELSE IF y1.err # "none" THEN Throw(y1.err)
             ELSE __trim(__absoluteAddOne(r, TRUE, r))
     ELSE LET y1 == __absoluteSubOne(Negative(a, b).digits, resultLength)
              r == __absoluteAndNot(y1.d, Positive(a, b).digits, y1.d, TRUE)
          IN IF y1.err # "none" THEN Throw(y1.err)
             ELSE __trim(__absoluteAddOne(r, TRUE, r))

(***************************************************************************)
(* Shifts.                                                                 *)
(***************************************************************************)
__toShiftAmount(b) ==
  IF Len(b.digits) > 1 THEN -1
  ELSE IF b.digits[1] > __kMaxLengthBits THEN -1
  ELSE b.digits[1]

\* __rightShiftByMaximum that forgets the sign.
__rightShiftByMaximum_zero(sign) == __zero

__rightShiftByMaximum(sign) == IF sign THEN __oneDigit(1, TRUE) ELSE __zero

\* ~v on a 32-bit integer.
BitNot32(v) == -v - 1

__leftShiftByAbsolute(a, b) ==
  LET shift == __toShiftAmount(b)
      digitShift == shift \div 30
      bitsShift == shift % 30
      length == Len(a.digits)
      grow == bitsShift # 0 /\ (a.digits[length] \div Pow2(30 - bitsShift)) # 0
      resultLength == length + digitShift + (IF grow THEN 1 ELSE 0)
      carryAt(i) == IF i = 0 THEN 0 ELSE a.digits[i] \div Pow2(30 - bitsShift)
      whole == [k \in 1..resultLength |->
                  IF k <= digitShift THEN 0 ELSE Digit(a.digits, k - 1 - digitShift)]
      parts == [k \in 1..resultLength |->
                  IF k <= digitShift THEN 0
                  ELSE IF k - digitShift <= length
                  THEN ShlDigit(a.digits[k - digitShift], bitsShift) + carryAt(k - digitShift - 1)
                  ELSE carryAt(length)]
  IN IF shift < 0 THEN Throw("RangeError")
     ELSE IF resultLength > __kMaxLength THEN Throw("RangeError")
     ELSE IF bitsShift = 0 THEN __trim(JSBI(a.sign, whole))
     ELSE IF ~grow /\ carryAt(length) # 0 THEN Throw("Error")
     ELSE __trim(JSBI(a.sign, parts))

\* __rightShiftByAbsolute that never rounds down (truncates toward zero).
__rightShiftByAbsolute_truncates(a, b) ==
  LET length == Len(a.digits)
      shift == __toShiftAmount(b)
      digitShift == shift \div 30
      bitsShift == shift % 30
      resultLength == length - digitShift
      whole == [k \in 1..resultLength |-> a.digits[k + digitShift]]
      parts == [k \in 1..resultLength |->
                  IF k < resultLength
                  THEN ShlDigit(a.digits[k + digitShift + 1], 30 - bitsShift)
                       + (a.digits[k + digitShift] \div Pow2(bitsShift))
                  ELSE a.digits[length] \div Pow2(bitsShift)]
  IN IF shift < 0 THEN __rightShiftByMaximum(a.sign)
     ELSE IF resultLength <= 0 THEN __rightShiftByMaximum(a.sign)
     ELSE __trim(JSBI(a.sign, IF bitsShift = 0 THEN whole ELSE parts))

__rightShiftByAbsolute(a, b) ==
  LET length == Len(a.digits)
      sign == a.sign
      shift == __toShiftAmount(b)
      digitShift == shift \div 30
      bitsShift == shift % 30
      mustRoundDown ==
        /\ sign
        /\ \/ (a.digits[digitShift + 1] % Pow2(bitsShift)) # 0
           \/ \E i \in 0..(digitShift - 1) : a.digits[i + 1] # 0
      roundingCanOverflow == BitNot32(a.digits[length]) = 0
      resultLength == length - digitShift
                      + (IF mustRoundDown /\ bitsShift = 0 /\ roundingCanOverflow
                         THEN 1 ELSE 0)
      last == length - digitShift - 1
      whole == [k \in 1..resultLength |->
                  IF k + digitShift <= length THEN a.digits[k + digitShift] ELSE 0]
      parts == [k \in 1..resultLength |->
                  IF k - 1 < last
                  THEN ShlDigit(a.digits[k + digitShift + 1], 30 - bitsShift)
                       + (a.digits[k + digitShift] \div Pow2(bitsShift))
                  ELSE a.digits[length] \div Pow2(bitsShift)]
      shifted == IF bitsShift = 0 THEN whole ELSE parts
  IN IF shift < 0 THEN __rightShiftByMaximum(sign)
     ELSE IF length - digitShift <= 0 THEN __rightShiftByMaximum(sign)
     ELSE IF mustRoundDown THEN __trim(__absoluteAddOne(shifted, TRUE, shifted))
     ELSE __trim(JSBI(sign, shifted))

\* leftShift that shifts to the left whatever the sign of the amount.
leftShift_ignoresSign(a, b) ==
  IF Len(b.digits) = 0 \/ Len(a.digits) = 0 THEN a
  ELSE __leftShiftByAbsolute(a, b)

leftShift(a, b) ==
  IF Len(b.digits) = 0 \/ Len(a.digits) = 0 THEN a
  ELSE IF b.sign THEN __rightShiftByAbsolute(a, b)
  ELSE __leftShiftByAbsolute(a, b)

signedRightShift(a, b) ==
  IF Len(b.digits) = 0 \/ Len(a.digits) = 0 THEN a
  ELSE IF b.sign THEN __leftShiftByAbsolute(a, b)
  ELSE __rightShiftByAbsolute(a, b)

(***************************************************************************)
(* Truncation to a bit width.                                              *)
(***************************************************************************)
__truncateToNBits(w, a) ==
  LET neededDigits == (w + 29) \div 30
      last == neededDigits - 1
      msd == DigitBits(a.digits, last)
  IN IF neededDigits > __kMaxLength THEN Throw("RangeError")
     ELSE __trim(JSBI(a.sign,
            [k \in 1..neededDigits |->
               IF k - 1 < last THEN Digit(a.digits, k - 1)
               ELSE IF w % 30 # 0 THEN LowBits(msd, w % 30) ELSE msd]))

RECURSIVE SubFromZero(_, _, _, _, _)
\* The two loops of __truncateAndSubFromPowerOfTwo below the top digit.
SubFromZero(xd, i, last, borrow, result) ==
  IF i >= last THEN [d |-> result, borrow |-> borrow]
  ELSE IF i < Len(xd)
  THEN LET r == 0 - xd[i + 1] - borrow
       IN SubFromZero(xd, i + 1, last, (r \div Pow2(30)) % 2,
                      SetDigit(result, i, r % Pow2(30)))
  ELSE SubFromZero(xd, i + 1, last, borrow,
                   SetDigit(result, i, IF borrow = 1 THEN kDigitMask ELSE 0))

__truncateAndSubFromPowerOfTwo(w, a, resultSign) ==
  LET neededDigits == (w + 29) \div 30
      last == neededDigits - 1
      low == SubFromZero(a.digits, 0, last, 0, NewDigits(neededDigits))
      msd == IF last < Len(a.digits) THEN a.digits[last + 1] ELSE 0
      msdBitsConsumed == w % 30
      minuendMsd == Pow2(msdBitsConsumed)
      resultMsd == IF msdBitsConsumed = 0
                   THEN (0 - msd - low.borrow) % Pow2(30)
                   ELSE (minuendMsd - LowBits(msd, msdBitsConsumed) - low.borrow)
                        % minuendMsd
  IN IF neededDigits > __kMaxLength THEN Throw("RangeError")
     ELSE __trim(JSBI(resultSign, SetDigit(low.d, last, resultMsd)))

\* asIntN that only truncates, never wrapping into the negative half.
asIntN_truncates(w, a) ==
  IF Len(a.digits) = 0 THEN a
  ELSE IF w < 0 THEN Throw("RangeError")
  ELSE IF w = 0 THEN __zero
  ELSE IF w >= __kMaxLengthBits THEN a
  ELSE IF Len(a.digits) < (w + 29) \div 30 THEN a
  ELSE __truncateToNBits(w, a)

asIntN(w, a) ==
  LET neededLength == (w + 29) \div 30
      topDigit == a.digits[neededLength]
      compareDigit == Pow2((w - 1) % 30)
      hasBit == BitAnd(topDigit, compareDigit) = compareDigit
  IN IF Len(a.digits) = 0 THEN a
     ELSE IF w < 0 THEN Throw("RangeError")
     ELSE IF w = 0 THEN __zero
     ELSE IF w >= __kMaxLengthBits THEN a
     ELSE IF Len(a.digits) < neededLength THEN a
     ELSE IF Len(a.digits) = neededLength /\ topDigit < compareDigit THEN a
     ELSE IF ~hasBit THEN __truncateToNBits(w, a)
     ELSE IF ~a.sign THEN __truncateAndSubFromPowerOfTwo(w, a, TRUE)
     ELSE IF BitAnd(topDigit, compareDigit - 1) = 0
     THEN IF \E i \in 0..(neededLength - 2) : a.digits[i + 1] # 0
          THEN __truncateAndSubFromPowerOfTwo(w, a, FALSE)
          ELSE IF Len(a.digits) = neededLength /\ topDigit = compareDigit THEN a
          ELSE __truncateToNBits(w, a)
     ELSE __truncateAndSubFromPowerOfTwo(w, a, FALSE)

\* asUintN that truncates the magnitude of a negative value.
asUintN_truncatesNegative(w, a) ==
  IF Len(a.digits) = 0 THEN a
  ELSE IF w < 0 THEN Throw("RangeError")
  ELSE IF w = 0 THEN __zero
  ELSE IF w >= __kMaxLengthBits THEN (IF a.sign THEN Throw("RangeError") ELSE a)
  ELSE IF Len(a.digits) < (w + 29) \div 30 THEN JSBI(FALSE, a.digits)
  ELSE __truncateToNBits(w, JSBI(FALSE, a.digits))

asUintN(w, a) ==
  LET neededLength == (w + 29) \div 30
      bitsInTopDigit == w % 30
  IN IF Len(a.digits) = 0 THEN a
     ELSE IF w < 0 THEN Throw("RangeError")
     ELSE IF w = 0 THEN __zero
     ELSE IF a.sign
     THEN IF w > __kMaxLengthBits THEN Throw("RangeError")
          ELSE __truncateAndSubFromPowerOfTwo(w, a, FALSE)
     ELSE IF w >= __kMaxLengthBits THEN a
     ELSE IF Len(a.digits) < neededLength THEN a
     ELSE IF /\ Len(a.digits) = neededLength
             /\ \/ bitsInTopDigit = 0
                \/ a.digits[neededLength] \div Pow2(bitsInTopDigit) = 0
     THEN a
     ELSE __truncateToNBits(w, a)

(***************************************************************************)
(* Exponentiation, the 64-bit DataView reader and construction from a      *)
(* number or a boolean.                                                    *)
(***************************************************************************)
RECURSIVE ExponentiateLoop(_, _, _, _)
\* The loop that takes a set bit's square as the result instead of
\* multiplying it in.
ExponentiateLoop_dropsFactor(expValue, runningSquare, result, hasResult) ==
  IF expValue = 0 THEN result
  ELSE LET square == multiply(runningSquare, runningSquare)
       IN IF ~IsValue(square) THEN square
          ELSE IF expValue % 2 # 0
          THEN ExponentiateLoop(expValue \div 2, square, square, TRUE)
          ELSE ExponentiateLoop(expValue \div 2, square, result, hasResult)

\* The square-and-multiply loop: result is null while hasResult is FALSE.
ExponentiateLoop(expValue, runningSquare, result, hasResult) ==
  IF expValue = 0 THEN result
  ELSE LET square == multiply(runningSquare, runningSquare)
       IN IF ~IsValue(square) THEN square
          ELSE IF expValue % 2 # 0
          THEN IF ~hasResult
               THEN ExponentiateLoop(expValue \div 2, square, square, TRUE)
               ELSE LET product == multiply(result, square)
                    IN IF ~IsValue(product) THEN product
                       ELSE ExponentiateLoop(expValue \div 2, square, product, TRUE)
          ELSE ExponentiateLoop(expValue \div 2, square, result, hasResult)

\* exponentiate that rejects an exponent of several digits before it looks
\* at the base.
exponentiate_lengthFirst(a, b) ==
  LET expValue == b.digits[1]
      neededDigits == 1 + (expValue \div 30)
  IN IF b.sign THEN Throw("RangeError")
     ELSE IF Len(b.digits) = 0 THEN __oneDigit(1, FALSE)
     ELSE IF Len(b.digits) > 1 THEN Throw("RangeError")
     ELSE IF Len(a.digits) = 0 THEN a
     ELSE IF Len(a.digits) = 1 /\ a.digits[1] = 1
     THEN IF a.sign /\ b.digits[1] % 2 = 0 THEN unaryMinus(a) ELSE a
     ELSE IF expValue = 1 THEN a
     ELSE IF expValue >= __kMaxLengthBits THEN Throw("RangeError")
     ELSE IF Len(a.digits) = 1 /\ a.digits[1] = 2
     THEN IF neededDigits > __kMaxLength THEN Throw("RangeError")
          ELSE JSBI(a.sign /\ expValue % 2 # 0,
                    [k \in 1..neededDigits |->
                       IF k = neededDigits THEN Pow2(expValue % 30) ELSE 0])
     ELSE ExponentiateLoop(expValue \div 2, a, a, expValue % 2 # 0)

exponentiate(a, b) ==
  LET expValue == b.digits[1]
      neededDigits == 1 + (expValue \div 30)
  IN IF b.sign THEN Throw("RangeError")
     ELSE IF Len(b.digits) = 0 THEN __oneDigit(1, FALSE)
     ELSE IF Len(a.digits) = 0 THEN a
     ELSE IF Len(a.digits) = 1 /\ a.digits[1] = 1
     THEN IF a.sign /\ b.digits[1] % 2 = 0 THEN unaryMinus(a) ELSE a
     ELSE IF Len(b.digits) > 1 THEN Throw("RangeError")
     ELSE IF expValue = 1 THEN a
     ELSE IF expValue >= __kMaxLengthBits THEN Throw("RangeError")
     ELSE IF Len(a.digits) = 1 /\ a.digits[1] = 2
     THEN IF neededDigits > __kMaxLength THEN Throw("RangeError")
          ELSE JSBI(a.sign /\ expValue % 2 # 0,
                    [k \in 1..neededDigits |->
                       IF k = neededDigits THEN Pow2(expValue % 30) ELSE 0])
     ELSE ExponentiateLoop(expValue \div 2, a, a, expValue % 2 # 0)

\* dataview.getUint32(byteOffset, littleEndian) as its two 16-bit halves;
\* bytes is the buffer, one number in 0..255 per byte.
GetUint32(bytes, byteOffset, littleEndian) ==
  LET b(k) == bytes[byteOffset + k + 1]
  IN IF littleEndian
     THEN [hi |-> b(3) * 256 + b(2), lo |-> b(1) * 256 + b(0)]
     ELSE [hi |-> b(0) * 256 + b(1), lo |-> b(2) * 256 + b(3)]

DataViewGetBigUint64(bytes, byteOffset, littleEndian) ==
  LET h == IF littleEndian THEN 4 ELSE 0
      l == IF littleEndian THEN 0 ELSE 4
      high == GetUint32(bytes, byteOffset + h, littleEndian)
      low == GetUint32(bytes, byteOffset + l, littleEndian)
  IN IF byteOffset < 0 \/ byteOffset + 8 > Len(bytes) THEN Throw("RangeError")
     ELSE IF 3 > __kMaxLength THEN Throw("RangeError")
     ELSE __trim(JSBI(FALSE,
            << (low.hi % 16384) * 65536 + low.lo,
               ((high.hi % 4096) * 65536 + high.lo) * 4 + (low.hi \div 16384),
               high.hi \div 4096 >>))

DataViewGetBigInt64(bytes, byteOffset, littleEndian) ==
  LET u == DataViewGetBigUint64(bytes, byteOffset, littleEndian)
  IN IF IsValue(u) THEN asIntN(64, u) ELSE u

\* What a call without a result returns.
Undefined == [kind |-> "undefined", sign |-> FALSE, digits |-> <<>>]

\* The four bytes of a 32-bit word always in big-endian order.
WordBytes_bigEndian(word, littleEndian) ==
  <<word.hi \div 256, word.hi % 256, word.lo \div 256, word.lo % 256>>

\* The four bytes of a 32-bit word (two 16-bit halves) in the order asked for.
WordBytes(word, littleEndian) ==
  IF littleEndian
  THEN <<word.lo % 256, word.lo \div 256, word.hi % 256, word.hi \div 256>>
  ELSE <<word.hi \div 256, word.hi % 256, word.lo \div 256, word.lo % 256>>

\* dataview.setUint32(byteOffset, word, littleEndian): the buffer afterwards,
\* or no write and a RangeError when the four bytes are not all inside it.
SetUint32(bytes, byteOffset, word, littleEndian) ==
  IF byteOffset < 0 \/ byteOffset + 4 > Len(bytes)
  THEN [bytes |-> bytes, outcome |-> Throw("RangeError")]
  ELSE [bytes |-> [k \in 1..Len(bytes) |->
                     IF k > byteOffset /\ k <= byteOffset + 4
                     THEN WordBytes(word, littleEndian)[k - byteOffset]
                     ELSE bytes[k]],
        outcome |-> Undefined]

\* low = d0 | d1 << 30 and high = d1 >>> 2 | d2 << 28 as 32-bit words; a
\* shift to the left keeps the bits that stay below 2^32.
LowWord(d) ==
  IF Len(d) = 0 THEN [hi |-> 0, lo |-> 0]
  ELSE [hi |-> d[1] \div 65536 + (IF Len(d) > 1 THEN (d[2] % 4) * 16384 ELSE 0),
        lo |-> d[1] % 65536]

HighWord(d) ==
  IF Len(d) <= 1 THEN [hi |-> 0, lo |-> 0]
  ELSE [hi |-> (d[2] \div 4) \div 65536 + (IF Len(d) > 2 THEN (d[3] % 16) * 4096 ELSE 0),
        lo |-> (d[2] \div 4) % 65536]

\* The second setUint32 runs only when the first has not thrown.
SetWords(bytes, byteOffset, d, littleEndian, h, l) ==
  IF SetUint32(bytes, byteOffset + h, HighWord(d), littleEndian).outcome # Undefined
  THEN SetUint32(bytes, byteOffset + h, HighWord(d), littleEndian)
  ELSE SetUint32(SetUint32(bytes, byteOffset + h, HighWord(d), littleEndian).bytes,
                 byteOffset + l, LowWord(d), littleEndian)

DataViewSetBigUint64(bytes, byteOffset, value, littleEndian) ==
  IF ~IsValue(asUintN(64, value))
  THEN [bytes |-> bytes, outcome |-> asUintN(64, value)]
  ELSE SetWords(bytes, byteOffset, asUintN(64, value).digits, littleEndian,
                IF littleEndian THEN 4 ELSE 0, IF littleEndian THEN 0 ELSE 4)

DataViewSetBigInt64(bytes, byteOffset, value, littleEndian) ==
  DataViewSetBigUint64(bytes, byteOffset, value, littleEndian)

(***************************************************************************)
(* Strings.  A string is the sequence of its UTF-16 code units; a call     *)
(* that returns a string yields [kind |-> "string", chars |-> ...].        *)
(***************************************************************************)
String(chars) == [kind |-> "string", chars |-> chars]
ThrowString(kind) == [kind |-> kind, chars |-> <<>>]
IsString(r) == r.kind = "string"

\* '0123456789abcdefghijklmnopqrstuvwxyz'.split(''), as code units.
__kConversionChars ==
  [d \in 1..36 |-> IF d <= 10 THEN 47 + d ELSE 86 + d]

__kMaxBitsPerChar ==
  << 0, 0, 32, 51, 64, 75, 83, 90, 96,
     102, 107, 111, 115, 119, 122, 126, 128,
     131, 134, 136, 139, 141, 143, 145, 147,
     149, 151, 153, 154, 156, 158, 159, 160,
     162, 163, 165, 166 >>

__kBitsPerCharTableShift == 5
__kBitsPerCharTableMultiplier == Pow2(__kBitsPerCharTableShift)

RECURSIVE NumberToString(_, _)
\* Number.prototype.toString(radix) of a non-negative integer.
NumberToString(v, radix) ==
  IF v < radix THEN <<__kConversionChars[v + 1]>>
  ELSE NumberToString(v \div radix, radix) \o <<__kConversionChars[(v % radix) + 1]>>

RECURSIVE BitCount(_)
\* The three mask-and-add lines of __toStringBasePowerOfTwo: the number of
\* one bits of an 8-bit value.
BitCount(v) == IF v = 0 THEN 0 ELSE (v % 2) + BitCount(v \div 2)

\* (digit | (newDigit << availableBits)) & charMask with charMask < 32: only
\* the low five bits of the shifted digit can pass the mask.
MaskedChar(digit, newDigit, availableBits, charMask) ==
  BitAnd(BitOr(digit, ((newDigit % 32) * Pow2(availableBits)) % 32), charMask)

RECURSIVE PowerOfTwoEmit(_, _, _, _, _)
\* while(availableBits >= bitsPerChar): out is result[pos + 1 ..], the
\* characters written so far.
PowerOfTwoEmit(digit, availableBits, bitsPerChar, charMask, out) ==
  IF availableBits >= bitsPerChar
  THEN PowerOfTwoEmit(digit \div Pow2(bitsPerChar), availableBits - bitsPerChar,
                      bitsPerChar, charMask,
                      <<__kConversionChars[BitAnd(digit, charMask) + 1]>> \o out)
  ELSE [digit |-> digit, availableBits |-> availableBits, out |-> out]

RECURSIVE PowerOfTwoDigits(_, _, _, _, _)
\* for(let i = 0; i < length - 1; i++); st is [digit, availableBits, out].
PowerOfTwoDigits(xd, i, st, bitsPerChar, charMask) ==
  IF i < Len(xd) - 1
  THEN PowerOfTwoDigits(xd, i + 1,
         PowerOfTwoEmit(
           xd[i + 1] \div Pow2(bitsPerChar - st.availableBits),
           30 - (bitsPerChar - st.availableBits), bitsPerChar, charMask,
           <<__kConversionChars[MaskedChar(st.digit, xd[i + 1], st.availableBits,
                                           charMask) + 1]>> \o st.out),
         bitsPerChar, charMask)
  ELSE st

RECURSIVE PowerOfTwoTop(_, _, _, _)
\* while(digit !== 0) over what is left of the most significant digit.
PowerOfTwoTop(digit, bitsPerChar, charMask, out) ==
  IF digit # 0
  THEN PowerOfTwoTop(digit \div Pow2(bitsPerChar), bitsPerChar, charMask,
                     <<__kConversionChars[BitAnd(digit, charMask) + 1]>> \o out)
  ELSE out

\* The end of __toStringBasePowerOfTwo: the sign, then pos !== -1 is the
\* number of characters written differing from charsRequired.
PowerOfTwoJoin(sign, out, charsRequired) ==
  IF Len(out) + (IF sign THEN 1 ELSE 0) # charsRequired THEN ThrowString("Error")
  ELSE String((IF sign THEN <<45>> ELSE <<>>) \o out)

\* The most significant digit, after the loop over the lower ones left st.
PowerOfTwoMsd(j, msd, st, bitsPerChar, charMask, charsRequired) ==
  PowerOfTwoJoin(j.sign,
    PowerOfTwoTop(msd \div Pow2(bitsPerChar - st.availableBits), bitsPerChar, charMask,
                  <<__kConversionChars[MaskedChar(st.digit, msd, st.availableBits,
                                                  charMask) + 1]>> \o st.out),
    charsRequired)

PowerOfTwoChars(j, bitsPerChar, charMask, charsRequired) ==
  IF charsRequired > Pow2(28) THEN ThrowString("Error")
  ELSE PowerOfTwoMsd(j, j.digits[Len(j.digits)],
                     PowerOfTwoDigits(j.digits, 0,
                                      [digit |-> 0, availableBits |-> 0, out |-> <<>>],
                                      bitsPerChar, charMask),
                     bitsPerChar, charMask, charsRequired)

__toStringBasePowerOfTwo(j, radix) ==
  PowerOfTwoChars(j, BitCount(radix - 1), radix - 1,
    (Len(j.digits) * 30 - __clzmsd(j) + BitCount(radix - 1) - 1) \div BitCount(radix - 1)
      + (IF j.sign THEN 1 ELSE 0))

\* The second half joined on without its leading zeros.
PadStart_none(chars, width) == chars

RECURSIVE PadStart(_, _)
\* while(secondHalf.length < secondHalfChars) secondHalf = '0' + secondHalf
PadStart(chars, width) ==
  IF Len(chars) < width THEN PadStart(<<48>> \o chars, width) ELSE chars

RECURSIVE GenericSmallSteps(_, _, _, _, _)
\* The half-digit loop of __toStringGeneric for a conqueror of at most 15
\* bits: [quotient, remainder].
GenericSmallSteps(xd, divisor, i, rem, quotient) ==
  IF i >= 0
  THEN GenericSmallSteps(xd, divisor, i - 1,
         (rem * 32768 + __halfDigit(xd, i)) % divisor,
         __setHalfDigit(quotient, i,
                        (rem * 32768 + __halfDigit(xd, i)) \div divisor))
  ELSE [quotient |-> quotient, remainder |-> rem]

\* secondHalfChars taken as all of charsRequired instead of half of it.
GenericSecondHalfChars_whole(j, radix) ==
  ((Len(j.digits) * 30 - __clzmsd(j)) * __kBitsPerCharTableMultiplier
     + (__kMaxBitsPerChar[radix + 1] - 1) - 1)
    \div (__kMaxBitsPerChar[radix + 1] - 1)

\* secondHalfChars of __toStringGeneric for a value of more than one digit.
GenericSecondHalfChars(j, radix) ==
  (((Len(j.digits) * 30 - __clzmsd(j)) * __kBitsPerCharTableMultiplier
      + (__kMaxBitsPerChar[radix + 1] - 1) - 1)
     \div (__kMaxBitsPerChar[radix + 1] - 1) + 1) \div 2

\* firstHalf + secondHalf, with the sign in front on the outermost call.
GenericJoin(sign, isRecursiveCall, firstHalf, secondHalf, secondHalfChars) ==
  IF ~IsString(firstHalf) THEN firstHalf
  ELSE IF ~IsString(secondHalf) THEN secondHalf
  ELSE String((IF ~isRecursiveCall /\ sign THEN <<45>> ELSE <<>>)
              \o firstHalf.chars \o PadStart(secondHalf.chars, secondHalfChars))

RECURSIVE __toStringGeneric(_, _, _)
RECURSIVE GenericSmall(_, _, _, _, _)
GenericSmall(j, radix, isRecursiveCall, secondHalfChars, sr) ==
  GenericJoin(j.sign, isRecursiveCall,
              __toStringGeneric(__trim(JSBI(FALSE, sr.quotient)), radix, TRUE),
              String(NumberToString(sr.remainder, radix)), secondHalfChars)

RECURSIVE GenericLarge(_, _, _, _, _)
GenericLarge(j, radix, isRecursiveCall, secondHalfChars, dr) ==
  IF dr.err # "none" THEN ThrowString(dr.err)
  ELSE GenericJoin(j.sign, isRecursiveCall,
                   __toStringGeneric(__trim(JSBI(FALSE, dr.q)), radix, TRUE),
                   __toStringGeneric(__trim(JSBI(FALSE, dr.u)), radix, TRUE),
                   secondHalfChars)

RECURSIVE GenericSplit(_, _, _, _, _)
\* The division by the conqueror, radix ^ secondHalfChars.
GenericSplit(j, radix, isRecursiveCall, secondHalfChars, conqueror) ==
  IF ~IsValue(conqueror) THEN ThrowString(conqueror.kind)
  ELSE IF Len(conqueror.digits) = 1 /\ conqueror.digits[1] <= kHalfMask
  THEN GenericSmall(j, radix, isRecursiveCall, secondHalfChars,
                    GenericSmallSteps(j.digits, conqueror.digits[1],
                                      Len(j.digits) * 2 - 1, 0,
                                      [k \in 1..Len(j.digits) |-> 0]))
  ELSE GenericLarge(j, radix, isRecursiveCall, secondHalfChars,
                    __absoluteDivLarge(j, conqueror))

RECURSIVE GenericConquer(_, _, _, _)
GenericConquer(j, radix, isRecursiveCall, secondHalfChars) ==
  GenericSplit(j, radix, isRecursiveCall, secondHalfChars,
               exponentiate(__oneDigit(radix, FALSE), __oneDigit(secondHalfChars, FALSE)))

__toStringGeneric(j, radix, isRecursiveCall) ==
  IF Len(j.digits) = 0 THEN String(<<>>)
  ELSE IF Len(j.digits) = 1
  THEN String((IF ~isRecursiveCall /\ j.sign THEN <<45>> ELSE <<>>)
              \o NumberToString(j.digits[1], radix))
  ELSE GenericConquer(j, radix, isRecursiveCall, GenericSecondHalfChars(j, radix))

\* JSBI.prototype.toString(radix).
toString(j, radix) ==
  IF radix < 2 \/ radix > 36 THEN ThrowString("RangeError")
  ELSE IF Len(j.digits) = 0 THEN String(<<48>>)
  ELSE IF BitAnd(radix, radix - 1) = 0 THEN __toStringBasePowerOfTwo(j, radix)
  ELSE __toStringGeneric(j, radix, FALSE)

\* The sentinel __fromString returns for a string it cannot parse.
null == [kind |-> "null", sign |-> FALSE, digits |-> <<>>]

__isWhitespace(c) ==
  IF c <= 13 /\ c >= 9 THEN TRUE
  ELSE IF c <= 159 THEN c = 32
  ELSE IF c <= 131071 THEN c = 160 \/ c = 5760
  ELSE IF c <= 196607
  THEN LET m == c % 131072
       IN m <= 10 \/ m = 40 \/ m = 41 \/ m = 47 \/ m = 95 \/ m = 4096
  ELSE c = 65279

\* The value of a digit character in the radix, or -1: the two unsigned
\* range tests of the parse loops.
DigitValue(current, radix) ==
  IF current >= 48 /\ current - 48 < Min(radix, 10) THEN current - 48
  ELSE IF BitOr(current, 32) >= 97 /\ BitOr(current, 32) - 97 < Max(radix - 10, 0)
  THEN BitOr(current, 32) - 87
  ELSE -1

RECURSIVE FillFromParts(_, _, _, _, _, _)
\* The loop of __fillFromParts, i from parts.length - 1 down; parts[k] is
\* [part, bits].  digit | (part << bitsInDigit) is kept to its low 30 bits,
\* all that is stored or carried on.
FillFromParts(parts, i, digitIndex, digit, bitsInDigit, result) ==
  IF i >= 0
  THEN LET part == parts[i + 1].part
           partBits == parts[i + 1].bits
           merged == BitOr(digit, ShlDigit(part, bitsInDigit))
           filled == bitsInDigit + partBits
       IN IF filled = 30
          THEN FillFromParts(parts, i - 1, digitIndex + 1, 0, 0,
                             SetDigit(result, digitIndex, merged))
          ELSE IF filled > 30
          THEN FillFromParts(parts, i - 1, digitIndex + 1,
                             part \div Pow2(partBits - (filled - 30)), filled - 30,
                             SetDigit(result, digitIndex, merged))
          ELSE FillFromParts(parts, i - 1, digitIndex, merged, filled, result)
  ELSE [digitIndex |-> digitIndex, digit |-> digit, result |-> result]

\* The tail of __fillFromParts: the last digit, then zeros; bug is set where
\* the code throws 'implementation bug'.
FillRest(f) ==
  IF f.digit # 0 /\ f.digitIndex >= Len(f.result) THEN [d |-> f.result, bug |-> TRUE]
  ELSE [d |-> [k \in 1..Len(f.result) |->
                 IF k <= f.digitIndex THEN f.result[k]
                 ELSE IF k = f.digitIndex + 1 /\ f.digit # 0 THEN f.digit
                 ELSE 0],
        bug |-> FALSE]

__fillFromParts(result, parts) ==
  FillRest(FillFromParts(parts, Len(parts) - 1, 0, 0, 0, result))

RECURSIVE InplaceMultiplyAddDigits(_, _, _, _, _, _, _)
\* The loop of __inplaceMultiplyAdd over the first length digits.
InplaceMultiplyAddDigits(d, mLow, mHigh, length, i, carry, high) ==
  IF i < length
  THEN LET dLow == d[i + 1] % 32768
           dHigh == d[i + 1] \div 32768
           pLow == dLow * mLow
           pMid1 == dLow * mHigh
           pMid2 == dHigh * mLow
           pHigh == dHigh * mHigh
           \* result = high + pLow + carry; carry = result >>> 30
           s1 == Sum30(<<high, pLow, carry>>)
           \* result += ((pMid1 & 0x7FFF) << 15) + ((pMid2 & 0x7FFF) << 15)
           s2 == Sum30(<<s1.lo, (pMid1 % 32768) * 32768, (pMid2 % 32768) * 32768>>)
       IN InplaceMultiplyAddDigits(SetDigit(d, i, s2.lo), mLow, mHigh, length, i + 1,
                                   s1.hi + s2.hi,
                                   pHigh + pMid1 \div 32768 + pMid2 \div 32768)
  ELSE [d |-> d, bug |-> carry # 0 \/ high # 0]

__inplaceMultiplyAdd(d, multiplier, summand, length) ==
  InplaceMultiplyAddDigits(d, multiplier % 32768, multiplier \div 32768,
                           Min(length, Len(d)), 0, 0, summand)

RECURSIVE SkipWhitespace(_, _)
\* The cursor after a run of whitespace; Len(string) when the run ends it.
SkipWhitespace(string, cursor) ==
  IF cursor < Len(string) /\ __isWhitespace(string[cursor + 1])
  THEN SkipWhitespace(string, cursor + 1) ELSE cursor

RECURSIVE SkipZeros(_, _)
\* while(current === 0x30): the cursor after the leading zeros.
SkipZeros(string, cursor) ==
  IF cursor < Len(string) /\ string[cursor + 1] = 48
  THEN SkipZeros(string, cursor + 1) ELSE cursor

RECURSIVE PowerPart(_, _, _, _, _, _)
\* The inner while(true) of the power-of-two branch: one part of at most 30
\* bits, [part, bits, cursor, done].
PowerPart(string, radix, bitsPerChar, cursor, part, bits) ==
  IF DigitValue(string[cursor + 1], radix) < 0
  THEN [part |-> part, bits |-> bits, cursor |-> cursor, done |-> TRUE]
  ELSE IF cursor + 1 = Len(string)
  THEN [part |-> part * Pow2(bitsPerChar) + DigitValue(string[cursor + 1], radix),
        bits |-> bits + bitsPerChar, cursor |-> cursor + 1, done |-> TRUE]
  ELSE IF bits + bitsPerChar + bitsPerChar > 30
  THEN [part |-> part * Pow2(bitsPerChar) + DigitValue(string[cursor + 1], radix),
        bits |-> bits + bitsPerChar, cursor |-> cursor + 1, done |-> FALSE]
  ELSE PowerPart(string, radix, bitsPerChar, cursor + 1,
                 part * Pow2(bitsPerChar) + DigitValue(string[cursor + 1], radix),
                 bits + bitsPerChar)

RECURSIVE PowerParts(_, _, _, _, _)
\* do { ... } while(!done): [parts, cursor].
PowerParts(string, radix, bitsPerChar, p, parts) ==
  IF p.done
  THEN [parts |-> Append(parts, [part |-> p.part, bits |-> p.bits]), cursor |-> p.cursor]
  ELSE PowerParts(string, radix, bitsPerChar,
                  PowerPart(string, radix, bitsPerChar, p.cursor, 0, 0),
                  Append(parts, [part |-> p.part, bits |-> p.bits]))

\* The power-of-two branch: [d, bug, cursor].
ParsePowerOfTwo(string, radix, bitsPerChar, cursor, result) ==
  LET ps == PowerParts(string, radix, bitsPerChar,
                       PowerPart(string, radix, bitsPerChar, cursor, 0, 0), <<>>)
      f == __fillFromParts(result, ps.parts)
  IN [d |-> f.d, bug |-> f.bug, cursor |-> ps.cursor]

RECURSIVE GenericPart(_, _, _, _, _, _)
\* The inner while(true) of the general branch: [part, multiplier,
\* charsSoFar, cursor, done].  multiplier * radix > 0x3FFFFFFF is tested on
\* the quotient to stay below 2^31.
GenericPart(string, radix, cursor, part, multiplier, charsSoFar) ==
  IF DigitValue(string[cursor + 1], radix) < 0
  THEN [part |-> part, multiplier |-> multiplier, charsSoFar |-> charsSoFar,
        cursor |-> cursor, done |-> TRUE]
  ELSE IF multiplier > kDigitMask \div radix
  THEN [part |-> part, multiplier |-> multiplier, charsSoFar |-> charsSoFar,
        cursor |-> cursor, done |-> FALSE]
  ELSE IF cursor + 1 = Len(string)
  THEN [part |-> part * radix + DigitValue(string[cursor + 1], radix),
        multiplier |-> multiplier * radix, charsSoFar |-> charsSoFar + 1,
        cursor |-> cursor + 1, done |-> TRUE]
  ELSE GenericPart(string, radix, cursor + 1,
                   part * radix + DigitValue(string[cursor + 1], radix),
                   multiplier * radix, charsSoFar + 1)

RECURSIVE GenericParts(_, _, _, _, _)
\* do { ... __inplaceMultiplyAdd(result, multiplier, part, digitsSoFar) }
\* while(!done), p being the part just read: [d, bug, cursor].
GenericParts(string, radix, bitsPerChar, p, result) ==
  LET digitsSoFar ==
        ((bitsPerChar * p.charsSoFar + (__kBitsPerCharTableMultiplier * 30 - 1))
           \div __kBitsPerCharTableMultiplier) \div 30
      r == __inplaceMultiplyAdd(result, p.multiplier, p.part, digitsSoFar)
  IN IF r.bug \/ p.done THEN [d |-> r.d, bug |-> r.bug, cursor |-> p.cursor]
     ELSE GenericParts(string, radix, bitsPerChar,
                       GenericPart(string, radix, p.cursor, 0, 1, p.charsSoFar),
                       r.d)

ParseGeneric(string, radix, bitsPerChar, cursor, result) ==
  GenericParts(string, radix, bitsPerChar,
               GenericPart(string, radix, cursor, 0, 1, 0),
               [k \in 1..Len(result) |-> 0])

\* A trailing check that looks at the first character only.
TailIsWhitespace_firstOnly(string, cursor) ==
  cursor = Len(string) \/ __isWhitespace(string[cursor + 1])

\* if(cursor !== length): whatever follows the digits is whitespace only.
TailIsWhitespace(string, cursor) ==
  SkipWhitespace(string, cursor) = Len(string)

\* The end of __fromString: the trailing check, the sign, __trim.
FromStringFinish(string, sign, p) ==
  IF p.bug THEN Throw("Error")
  ELSE IF ~TailIsWhitespace(string, p.cursor) THEN null
  ELSE __trim(JSBI(sign = -1, p.d))

\* Allocation and parse, the cursor standing on the first significant digit.
FromStringParse(string, radix, sign, cursor, resultLength) ==
  IF resultLength > __kMaxLength THEN Throw("RangeError")
  ELSE IF BitAnd(radix, radix - 1) = 0
  THEN FromStringFinish(string, sign,
         ParsePowerOfTwo(string, radix,
                         __kMaxBitsPerChar[radix + 1] \div __kBitsPerCharTableMultiplier,
                         cursor, NewDigits(resultLength)))
  ELSE FromStringFinish(string, sign,
         ParseGeneric(string, radix, __kMaxBitsPerChar[radix + 1], cursor,
                      NewDigits(resultLength)))

\* chars, bitsMin and resultLength.
FromStringAllocate(string, radix, sign, cursor) ==
  IF Len(string) - cursor > Pow2(30) \div __kMaxBitsPerChar[radix + 1] THEN null
  ELSE FromStringParse(string, radix, sign, cursor,
         (((__kMaxBitsPerChar[radix + 1] * (Len(string) - cursor)
              + (__kBitsPerCharTableMultiplier - 1))
             \div __kBitsPerCharTableMultiplier) + 29) \div 30)

\* The leading zeros without the test of the sign before them.
FromStringZeros_anySign(string, radix, sign, cursor) ==
  IF SkipZeros(string, cursor) = Len(string) THEN __zero
  ELSE FromStringAllocate(string, radix, sign, SkipZeros(string, cursor))

\* if(sign !== 0 && radix !== 10) return null; then the leading zeros.
FromStringZeros(string, radix, sign, cursor) ==
  IF sign # 0 /\ radix # 10 THEN null
  ELSE IF SkipZeros(string, cursor) = Len(string) THEN __zero
  ELSE FromStringAllocate(string, radix, sign, SkipZeros(string, cursor))

\* After '0' with no radix given: the prefix letter decides the radix.
FromStringPrefix(string, sign, cursor) ==
  IF cursor = Len(string) THEN __zero
  ELSE IF string[cursor + 1] \in {88, 120}
  THEN IF cursor + 1 = Len(string) THEN null
       ELSE FromStringZeros(string, 16, sign, cursor + 1)
  ELSE IF string[cursor + 1] \in {79, 111}
  THEN IF cursor + 1 = Len(string) THEN null
       ELSE FromStringZeros(string, 8, sign, cursor + 1)
  ELSE IF string[cursor + 1] \in {66, 98}
  THEN IF cursor + 1 = Len(string) THEN null
       ELSE FromStringZeros(string, 2, sign, cursor + 1)
  ELSE FromStringZeros(string, 10, sign, cursor)

\* After '0' with radix 16 given: an optional x.
FromStringHexPrefix(string, sign, cursor) ==
  IF cursor = Len(string) THEN __zero
  ELSE IF string[cursor + 1] \in {88, 120}
  THEN IF cursor + 1 = Len(string) THEN null
       ELSE FromStringZeros(string, 16, sign, cursor + 1)
  ELSE FromStringZeros(string, 16, sign, cursor)

\* Detect radix.
FromStringRadix(string, radix, sign, cursor) ==
  IF radix = 0
  THEN IF string[cursor + 1] = 48 THEN FromStringPrefix(string, sign, cursor + 1)
       ELSE FromStringZeros(string, 10, sign, cursor)
  ELSE IF radix = 16 /\ string[cursor + 1] = 48
  THEN FromStringHexPrefix(string, sign, cursor + 1)
  ELSE FromStringZeros(string, radix, sign, cursor)

\* A sign that ends the string read as zero.
FromStringSign_loneSign(string, radix, cursor) ==
  IF cursor = Len(string) THEN __zero
  ELSE IF string[cursor + 1] \in {43, 45}
  THEN IF cursor + 1 = Len(string) THEN __zero
       ELSE FromStringRadix(string, radix,
                            IF string[cursor + 1] = 43 THEN 1 ELSE -1, cursor + 1)
  ELSE FromStringRadix(string, radix, 0, cursor)

\* The sign character, the cursor standing on the first non-whitespace one.
FromStringSign(string, radix, cursor) ==
  IF cursor = Len(string) THEN __zero
  ELSE IF string[cursor + 1] = 43
  THEN IF cursor + 1 = Len(string) THEN null
       ELSE FromStringRadix(string, radix, 1, cursor + 1)
  ELSE IF string[cursor + 1] = 45
  THEN IF cursor + 1 = Len(string) THEN null
       ELSE FromStringRadix(string, radix, -1, cursor + 1)
  ELSE FromStringRadix(string, radix, 0, cursor)

\* __fromString(string, radix); radix 0 stands for the default.
__fromString(string, radix) ==
  FromStringSign(string, radix, SkipWhitespace(string, 0))

(***************************************************************************)
(* 32-bit words and numbers.  A word is its 32 bits, least significant     *)
(* first, built as a tuple (\o <<>>) so that no word is a function of       *)
(* another.  A number is its IEEE 754 binary64 encoding: the high word as  *)
(* its three fields, sign (bit 31), exponent (bits 20..30) and high (the   *)
(* top 20 mantissa bits), and the low word.  The shared conversion buffer  *)
(* holds one such encoding.                                                *)
(***************************************************************************)
ZeroWord == [k \in 1..32 |-> 0] \o <<>>

\* The word of an integer 0 <= v < 2^31.
WordOf(v) == [k \in 1..32 |-> IF k = 32 THEN 0 ELSE (v \div Pow2(k - 1)) % 2] \o <<>>

RECURSIVE WordSum(_, _)
WordSum(w, k) == IF k > 31 THEN 0 ELSE w[k] * Pow2(k - 1) + WordSum(w, k + 1)

\* The integer of a word whose top bit is clear.
WordNum(w) == WordSum(w, 1)

\* w << s and w >>> s; the count is taken modulo 32.
Shl(w, s) == [k \in 1..32 |-> IF k > (s % 32) THEN w[k - (s % 32)] ELSE 0] \o <<>>
ShrU(w, s) == [k \in 1..32 |-> IF k + (s % 32) <= 32 THEN w[k + (s % 32)] ELSE 0] \o <<>>

WordOr(a, b) == [k \in 1..32 |-> IF a[k] = 1 \/ b[k] = 1 THEN 1 ELSE 0] \o <<>>

\* (w + 1) >>> 0
WordInc(w) ==
  [k \in 1..32 |-> IF \A i \in 1..(k - 1) : w[i] = 1 THEN 1 - w[k] ELSE w[k]] \o <<>>

\* The number with the given sign, biased exponent, top 20 mantissa bits
\* (an integer) and low 32 mantissa bits (a word).
Number(sign, rawExponent, mantissaHigh, mantissaLow) ==
  [sign |-> sign, exponent |-> rawExponent, high |-> mantissaHigh, low |-> mantissaLow]

Infinity(sign) == Number(sign, 2047, 0, ZeroWord)
PlusZero == Number(FALSE, 0, 0, ZeroWord)

\* Bit i (0..51) of the mantissa of d.
MantissaBit(d, i) ==
  IF i < 32 THEN d.low[i + 1] ELSE (d.high \div Pow2(i - 32)) % 2

\* (high word >>> 20) & 0x7FF
RawExponent(d) == d.exponent
MantissaIsZero(d) == d.high = 0 /\ d.low = ZeroWord

\* y !== y, Number.isFinite(y), y === 0 (which -0 satisfies), y < 0.
NumberIsNaN(d) == RawExponent(d) = 2047 /\ ~MantissaIsZero(d)
NumberIsFinite(d) == RawExponent(d) # 2047
NumberIsZero(d) == RawExponent(d) = 0 /\ MantissaIsZero(d)
NumberIsNegative(d) == d.sign /\ ~NumberIsZero(d) /\ ~NumberIsNaN(d)

\* Math.floor(d) === d for a finite d: zero, or no mantissa bit set below
\* the units.
NumberIsInteger(d) ==
  \/ NumberIsZero(d)
  \/ /\ RawExponent(d) >= 1023
     /\ \A i \in 0..51 : i < 52 - (RawExponent(d) - 1023) => MantissaBit(d, i) = 0

RECURSIVE MantissaTop(_, _, _)
\* The integer of the hidden bit and the next e mantissa bits, e < 31.
MantissaTop(d, e, i) ==
  IF i > e THEN 0
  ELSE (IF i = 0 THEN 1 ELSE MantissaBit(d, 52 - i)) * Pow2(e - i) + MantissaTop(d, e, i + 1)

\* Math.abs(d) as an integer, for an integer-valued d below 2^31.
NumberAbs(d) ==
  IF NumberIsZero(d) THEN 0 ELSE MantissaTop(d, RawExponent(d) - 1023, 0)

\* Zero is not taken for a one-digit integer.
__isOneDigitInt_positive(d) ==
  /\ ~d.sign /\ RawExponent(d) >= 1023 /\ RawExponent(d) <= 1023 + 29
  /\ NumberIsInteger(d)

\* (d & 0x3FFFFFFF) === d: d is an integer in 0 .. 2^30 - 1 (or -0).
__isOneDigitInt(d) ==
  IF NumberIsZero(d) THEN TRUE
  ELSE /\ ~d.sign /\ RawExponent(d) >= 1023 /\ RawExponent(d) <= 1023 + 29
       /\ NumberIsInteger(d)

\* The number of the integer value (0 < value < 2^30) with the given sign:
\* the bits of value below its top bit are the top bits of the mantissa.
NumberOfPositive(value, sign) ==
  [sign |-> sign, exponent |-> 1022 + BitLength(value),
   high |-> IF BitLength(value) > 21
            THEN (value \div Pow2(BitLength(value) - 21)) % Pow2(20)
            ELSE (value * Pow2(21 - BitLength(value))) % Pow2(20),
   low |-> [k \in 1..32 |->
              IF k - 1 >= 53 - BitLength(value)
              THEN (value \div Pow2(k - 1 - (53 - BitLength(value)))) % 2
              ELSE 0] \o <<>>]

\* sign ? -value : value for an integer 0 <= value < 2^30.
NumberOfInt(value, sign) ==
  IF value = 0 THEN Number(sign, 0, 0, ZeroWord) ELSE NumberOfPositive(value, sign)

\* The conversion buffer s after __kBitConversionInts[high] = w, after
\* __kBitConversionInts[low] = w and after __kBitConversionDouble[0] = d,
\* and what __kBitConversionDouble[0] reads from it.
WriteHigh(s, w) == [sign |-> w.sign, exponent |-> w.exponent, high |-> w.high, low |-> s.low]
WriteLow(s, w) == [sign |-> s.sign, exponent |-> s.exponent, high |-> s.high, low |-> w]
WriteDouble(s, d) == [sign |-> d.sign, exponent |-> d.exponent, high |-> d.high, low |-> d.low]
ReadDouble(s) == [sign |-> s.sign, exponent |-> s.exponent, high |-> s.high, low |-> s.low]

\* signBit | exponent | mantissaHigh as the fields of the high word, for an
\* exponent already shifted down by 20 and a mantissaHigh below 2^31.
HighFields(sign, exponent, mantissaHigh) ==
  [sign |-> sign, exponent |-> BitOr(exponent, (mantissaHigh \div Pow2(20)) % 2048),
   high |-> mantissaHigh % Pow2(20)]

RECURSIVE DecideLower(_, _)
\* while(digitIndex > 0) { digitIndex--; if(x.__digit(digitIndex) !== 0) return 1; }
\* return 0;
DecideLower(a, digitIndex) ==
  IF digitIndex > 0
  THEN IF a.digits[digitIndex] # 0 THEN 1 ELSE DecideLower(a, digitIndex - 1)
  ELSE 0

\* The rounding once the digit holding the top unconsumed bit is known.
DecideBit(a, digitIndex, currentDigit, topUnconsumedBit) ==
  IF BitAnd(currentDigit, Pow2(topUnconsumedBit)) = 0 THEN -1
  ELSE IF BitAnd(currentDigit, Pow2(topUnconsumedBit) - 1) # 0 THEN 1
  ELSE DecideLower(a, digitIndex)

\* Every value is rounded towards zero.
__decideRounding_down(a, mantissaBitsUnset, digitIndex, currentDigit) == -1

\* 1 to round up, -1 to round down, 0 for a tie.
__decideRounding(a, mantissaBitsUnset, digitIndex, currentDigit) ==
  IF mantissaBitsUnset > 0 THEN -1
  ELSE IF mantissaBitsUnset < 0
  THEN DecideBit(a, digitIndex, currentDigit, -mantissaBitsUnset - 1)
  ELSE IF digitIndex = 0 THEN -1
  ELSE DecideBit(a, digitIndex - 1, a.digits[digitIndex], 29)

\* The mantissa after the most significant digit: m is [high, low, unset,
\* digitIndex, currentDigit], unset being mantissaLowBitsUnset.
ToNumberFirst(a, xMsd, shift) ==
  [high |-> ShrU(IF shift = 32 THEN ZeroWord ELSE Shl(WordOf(xMsd), shift), 12),
   low |-> IF shift >= 12 THEN ZeroWord ELSE Shl(WordOf(xMsd), 20 + shift),
   unset |-> 20 + shift, digitIndex |-> Len(a.digits) - 1, currentDigit |-> xMsd]

\* if(mantissaHighBitsUnset > 0 && digitIndex > 0) { ... }
ToNumberSecond(a, m, mantissaHighBitsUnset) ==
  IF mantissaHighBitsUnset > 0 /\ m.digitIndex > 0
  THEN [high |-> WordOr(m.high, ShrU(WordOf(a.digits[m.digitIndex]),
                                     30 - mantissaHighBitsUnset)),
        low |-> Shl(WordOf(a.digits[m.digitIndex]), mantissaHighBitsUnset + 2),
        unset |-> mantissaHighBitsUnset + 2, digitIndex |-> m.digitIndex - 1,
        currentDigit |-> a.digits[m.digitIndex]]
  ELSE m

\* One digit more into the low word.
ToNumberDigit(a, m) ==
  [high |-> m.high,
   low |-> WordOr(m.low,
                  IF m.unset >= 30
                  THEN Shl(WordOf(a.digits[m.digitIndex]), m.unset - 30)
                  ELSE ShrU(WordOf(a.digits[m.digitIndex]), 30 - m.unset)),
   unset |-> m.unset - 30, digitIndex |-> m.digitIndex - 1,
   currentDigit |-> a.digits[m.digitIndex]]

RECURSIVE ToNumberFill(_, _)
\* while(mantissaLowBitsUnset > 0 && digitIndex > 0) { ... }
ToNumberFill(a, m) ==
  IF m.unset > 0 /\ m.digitIndex > 0 /\ Len(m.low) = 32
  THEN ToNumberFill(a, ToNumberDigit(a, m))
  ELSE m

\* The mantissa and the exponent after rounding: [high, low, exponent,
\* overflow], overflow when the exponent passed 1023.
ToNumberRound(m, exponent, rounding) ==
  IF rounding = 1 \/ (rounding = 0 /\ m.low[1] = 1)
  THEN IF WordInc(m.low) = ZeroWord
       THEN IF ShrU(WordInc(m.high), 20) # ZeroWord
            THEN [high |-> ZeroWord, low |-> ZeroWord, exponent |-> exponent + 1,
                  overflow |-> exponent + 1 > 1023]
            ELSE [high |-> WordInc(m.high), low |-> ZeroWord,
                  exponent |-> exponent, overflow |-> FALSE]
       ELSE [high |-> m.high, low |-> WordInc(m.low), exponent |-> exponent,
             overflow |-> FALSE]
  ELSE [high |-> m.high, low |-> m.low, exponent |-> exponent, overflow |-> FALSE]

\* The low word is left as the call found it.
ToNumberStore_skipsLow(s, sign, r) ==
  WriteHigh(s, HighFields(sign, r.exponent + 1023, WordNum(r.high)))

\* __kBitConversionInts[__kBitConversionIntHigh] = signBit | exponent | mantissaHigh;
\* __kBitConversionInts[__kBitConversionIntLow] = mantissaLow;
ToNumberStore(s, sign, r) ==
  WriteLow(WriteHigh(s, HighFields(sign, r.exponent + 1023, WordNum(r.high))), r.low)

\* What toNumber returns and leaves in the buffer once it has rounded.
ToNumberFinish(a, s, r) ==
  IF r.overflow THEN [value |-> Infinity(a.sign), scratch |-> s]
  ELSE [value |-> ReadDouble(ToNumberStore(s, a.sign, r)),
        scratch |-> ToNumberStore(s, a.sign, r)]

ToNumberRounded(a, s, m, exponent) ==
  ToNumberFinish(a, s, ToNumberRound(m, exponent,
    __decideRounding(a, m.unset, m.digitIndex, m.currentDigit)))

ToNumberLong(a, s, xMsd, msdLeadingZeros) ==
  IF Len(a.digits) * 30 - msdLeadingZeros > 1024
  THEN [value |-> Infinity(a.sign), scratch |-> s]
  ELSE ToNumberRounded(a, s,
         ToNumberFill(a, ToNumberSecond(a, ToNumberFirst(a, xMsd, msdLeadingZeros + 3),
                                        msdLeadingZeros + 3 - 12)),
         Len(a.digits) * 30 - msdLeadingZeros - 1)

\* [value, scratch]: the number returned and the buffer afterwards, s being
\* the buffer as the call found it.
toNumber(a, s) ==
  IF Len(a.digits) = 0 THEN [value |-> PlusZero, scratch |-> s]
  ELSE IF Len(a.digits) = 1
  THEN [value |-> NumberOfInt(a.digits[1], a.sign), scratch |-> s]
  ELSE ToNumberLong(a, s, a.digits[Len(a.digits)], __clz30(a.digits[Len(a.digits)]))

\* The first chunk of the mantissa, aligned with a most significant digit
\* whose top bit is msdTopBit: [chunk, high, low, remaining], chunk the
\* integer to store or compare, remaining the mantissa bits not yet used.
MantissaFirst(mantissaHigh, mantissaLow, msdTopBit) ==
  IF msdTopBit < 20
  THEN [chunk |-> WordNum(ShrU(mantissaHigh, 20 - msdTopBit)),
        high |-> WordOr(Shl(mantissaHigh, 32 - (20 - msdTopBit)),
                        ShrU(mantissaLow, 20 - msdTopBit)),
        low |-> Shl(mantissaLow, 32 - (20 - msdTopBit)),
        remaining |-> 20 - msdTopBit + 32]
  ELSE IF msdTopBit = 20
  THEN [chunk |-> WordNum(mantissaHigh), high |-> mantissaLow, low |-> ZeroWord,
        remaining |-> 32]
  ELSE [chunk |-> WordNum(WordOr(Shl(mantissaHigh, msdTopBit - 20),
                                 ShrU(mantissaLow, 32 - (msdTopBit - 20)))),
        high |-> Shl(mantissaLow, msdTopBit - 20), low |-> ZeroWord,
        remaining |-> 32 - (msdTopBit - 20)]

\* The low word never reaches the high word.
MantissaNext_dropsLow(c) ==
  IF c.remaining > 0
  THEN [chunk |-> WordNum(ShrU(c.high, 2)), high |-> Shl(c.high, 30),
        low |-> Shl(c.low, 30), remaining |-> c.remaining - 30]
  ELSE [chunk |-> 0, high |-> c.high, low |-> c.low, remaining |-> c.remaining]

\* The next 30 bits of the mantissa, or zero when none remain.
MantissaNext(c) ==
  IF c.remaining > 0
  THEN [chunk |-> WordNum(ShrU(c.high, 2)),
        high |-> WordOr(Shl(c.high, 30), ShrU(c.low, 2)),
        low |-> Shl(c.low, 30), remaining |-> c.remaining - 30]
  ELSE [chunk |-> 0, high |-> c.high, low |-> c.low, remaining |-> c.remaining]

\* (__kBitConversionInts[__kBitConversionIntHigh] & 0xFFFFF) | kHiddenBit
MantissaHighOf(s) == WordOf(BitOr(s.high, 1048576))

RECURSIVE FromDoubleRest(_, _, _)
\* for(let digitIndex = digits - 2; digitIndex >= 0; digitIndex--) { ... }
FromDoubleRest(result, c, digitIndex) ==
  IF digitIndex >= 0 /\ Len(result) > 0 /\ Len(c.high) = 32 /\ Len(c.low) = 32
  THEN FromDoubleRest(SetDigit(result, digitIndex, MantissaNext(c).chunk),
                      MantissaNext(c), digitIndex - 1)
  ELSE result

FromDoubleFill(sign, digits, c) ==
  __trim(JSBI(sign, FromDoubleRest(SetDigit(NewDigits(digits), digits - 1, c.chunk),
                                  c, digits - 2)))

\* new JSBI(digits, sign) throws past the limit.
FromDoubleDigits(sign, s, exponent, digits) ==
  IF digits > __kMaxLength THEN Throw("RangeError")
  ELSE FromDoubleFill(sign, digits, MantissaFirst(MantissaHighOf(s), s.low, exponent % 30))

\* [out, scratch]: what __fromDouble returns or throws for a number of
\* magnitude one or more, and the buffer afterwards.
__fromDouble(value, s) ==
  [out |-> FromDoubleDigits(NumberIsNegative(value), WriteDouble(s, value),
                            RawExponent(WriteDouble(s, value)) - 1023,
                            (RawExponent(WriteDouble(s, value)) - 1023) \div 30 + 1),
   scratch |-> WriteDouble(s, value)]

\* BigInt(arg) for typeof arg === 'number': [out, scratch].
BigIntNumber(arg, s) ==
  IF NumberIsZero(arg) THEN [out |-> __zero, scratch |-> s]
  ELSE IF __isOneDigitInt(arg)
  THEN [out |-> IF NumberIsNegative(arg) THEN __oneDigit(NumberAbs(arg), TRUE)
                ELSE __oneDigit(NumberAbs(arg), FALSE),
        scratch |-> s]
  ELSE IF ~NumberIsFinite(arg) \/ ~NumberIsInteger(arg)
  THEN [out |-> Throw("RangeError"), scratch |-> s]
  ELSE __fromDouble(arg, s)

\* What a comparison against a number yields: [cmp, nan, err, scratch], cmp
\* negative, zero or positive, nan when the result is NaN, err "Error"
\* when an 'implementation bug' branch throws.
Compared(c, s) == [cmp |-> c, nan |-> FALSE, err |-> "none", scratch |-> s]
ComparedNaN(s) == [cmp |-> 0, nan |-> TRUE, err |-> "none", scratch |-> s]
CompareBug(s) == [cmp |-> 0, nan |-> FALSE, err |-> "Error", scratch |-> s]

RECURSIVE CompareRest(_, _, _, _)
\* The digits below the most significant against the rest of the mantissa,
\* then the test for a fractional part.
CompareRest(a, s, c, digitIndex) ==
  IF digitIndex >= 0
  THEN IF a.digits[digitIndex + 1] > MantissaNext(c).chunk
       THEN Compared(__absoluteGreater(a.sign), s)
       ELSE IF a.digits[digitIndex + 1] < MantissaNext(c).chunk
       THEN Compared(__absoluteLess(a.sign), s)
       ELSE CompareRest(a, s, MantissaNext(c), digitIndex - 1)
  ELSE IF c.high # ZeroWord \/ c.low # ZeroWord
  THEN IF c.remaining = 0 THEN CompareBug(s)
       ELSE Compared(__absoluteLess(a.sign), s)
  ELSE Compared(0, s)

CompareMsd(a, s, c) ==
  IF a.digits[Len(a.digits)] > c.chunk THEN Compared(__absoluteGreater(a.sign), s)
  ELSE IF a.digits[Len(a.digits)] < c.chunk THEN Compared(__absoluteLess(a.sign), s)
  ELSE CompareRest(a, s, c, Len(a.digits) - 2)

CompareLengths(a, s, msdLeadingZeros, exponent) ==
  IF Len(a.digits) * 30 - msdLeadingZeros < exponent + 1
  THEN Compared(__absoluteLess(a.sign), s)
  ELSE IF Len(a.digits) * 30 - msdLeadingZeros > exponent + 1
  THEN Compared(__absoluteGreater(a.sign), s)
  ELSE IF 29 - msdLeadingZeros # (Len(a.digits) * 30 - msdLeadingZeros - 1) % 30
  THEN CompareBug(s)
  ELSE CompareMsd(a, s, MantissaFirst(MantissaHighOf(s), s.low, 29 - msdLeadingZeros))

\* From __kBitConversionDouble[0] = y on; s is the buffer after that write.
CompareExponent(a, s) ==
  IF RawExponent(s) = 2047 THEN CompareBug(s)
  ELSE IF RawExponent(s) - 1023 < 0 THEN Compared(__absoluteGreater(a.sign), s)
  ELSE CompareLengths(a, s, __clz30(a.digits[Len(a.digits)]), RawExponent(s) - 1023)

\* The exponent and the mantissa are read from the buffer as the call
\* found it.
CompareStore_none(s, d) == s

\* __kBitConversionDouble[0] = y;
CompareStore(s, d) == WriteDouble(s, d)

__compareToDouble(a, d, s) ==
  IF NumberIsNaN(d) THEN ComparedNaN(s)
  ELSE IF d = Infinity(FALSE) THEN Compared(-1, s)
  ELSE IF d = Infinity(TRUE) THEN Compared(1, s)
  ELSE IF a.sign # NumberIsNegative(d) THEN Compared(__unequalSign(a.sign), s)
  ELSE IF NumberIsZero(d) THEN CompareBug(s)
  ELSE IF Len(a.digits) = 0 THEN Compared(-1, s)
  ELSE CompareExponent(a, CompareStore(s, d))

__compareToNumber(a, d, s) ==
  IF __isOneDigitInt(d)
  THEN IF a.sign # NumberIsNegative(d) THEN Compared(__unequalSign(a.sign), s)
       ELSE IF Len(a.digits) = 0
       THEN IF NumberIsNegative(d) THEN CompareBug(s)
            ELSE Compared(IF NumberIsZero(d) THEN 0 ELSE -1, s)
       ELSE IF Len(a.digits) > 1 THEN Compared(__absoluteGreater(a.sign), s)
       ELSE IF a.digits[1] > NumberAbs(d) THEN Compared(__absoluteGreater(a.sign), s)
       ELSE IF a.digits[1] < NumberAbs(d) THEN Compared(__absoluteLess(a.sign), s)
       ELSE Compared(0, s)
  ELSE __compareToDouble(a, d, s)

\* [eq, err, scratch]
__equalToNumber(a, d, s) ==
  IF __isOneDigitInt(d)
  THEN [eq |-> IF NumberIsZero(d) THEN Len(a.digits) = 0
               ELSE /\ Len(a.digits) = 1 /\ a.sign = NumberIsNegative(d)
                    /\ a.digits[1] = NumberAbs(d),
        err |-> "none", scratch |-> s]
  ELSE [eq |-> /\ ~__compareToDouble(a, d, s).nan
               /\ __compareToDouble(a, d, s).cmp = 0,
        err |-> __compareToDouble(a, d, s).err,
        scratch |-> __compareToDouble(a, d, s).scratch]

\* NaN compares false under every operator.
__comparisonResultToBool(result, operator) ==
  IF result.nan THEN FALSE
  ELSE IF operator = 0 THEN result.cmp < 0
  ELSE IF operator = 1 THEN result.cmp <= 0
  ELSE IF operator = 2 THEN result.cmp > 0
  ELSE result.cmp >= 0

\* What an operator hands back: [out, scratch], out a boolean or the throw.
Answer(b, err, s) ==
  [out |-> IF err # "none" THEN Throw(err) ELSE Boolean(b), scratch |-> s]

\* __compare(x, y, op) for a BigInt a and a number d, the number being the
\* left operand when numberFirst; "op ^ 2" reverses the direction.
__compare(a, d, numberFirst, operator, s) ==
  Answer(__comparisonResultToBool(__compareToNumber(a, d, s),
                                  IF numberFirst THEN (operator + 2) % 4 ELSE operator),
         __compareToNumber(a, d, s).err, __compareToNumber(a, d, s).scratch)

LT(a, d, numberFirst, s) == __compare(a, d, numberFirst, 0, s)
LE(a, d, numberFirst, s) == __compare(a, d, numberFirst, 1, s)
GT(a, d, numberFirst, s) == __compare(a, d, numberFirst, 2, s)
GE(a, d, numberFirst, s) == __compare(a, d, numberFirst, 3, s)

\* EQ(x, y) swaps a BigInt on the left to the right and ends in
\* __equalToNumber either way.
EQ(a, d, numberFirst, s) ==
  Answer(__equalToNumber(a, d, s).eq, __equalToNumber(a, d, s).err,
         __equalToNumber(a, d, s).scratch)

NE(a, d, numberFirst, s) ==
  Answer(~__equalToNumber(a, d, s).eq, __equalToNumber(a, d, s).err,
         __equalToNumber(a, d, s).scratch)

\* BigInt(arg) for a number, a string and a boolean (arg is [type, value], a
\* number being given by its two words).
BigInt(arg) ==
  IF arg.type = "number" THEN BigIntNumber(arg.value, PlusZero).out
  ELSE IF arg.type = "string"
  THEN IF __fromString(arg.value, 0) = null THEN Throw("SyntaxError")
       ELSE __fromString(arg.value, 0)
  ELSE IF arg.type = "boolean"
  THEN IF arg.value THEN __oneDigit(1, FALSE) ELSE __zero
  ELSE Throw("TypeError")

(***************************************************************************)
(* The integers the claims speak of.  An integer is kept as a sequence of  *)
(* signed coefficients of powers of 2^10, least significant first, not     *)
(* necessarily reduced; sums and products are taken coefficient-wise and   *)
(* an integer's sign is read off after propagating the carries.  Nothing   *)
(* here is shared with the operators that model the code.                  *)
(***************************************************************************)
LimbBase == 2 ^ 10

RECURSIVE DigitsToLimbs(_, _)
DigitsToLimbs(ds, s) ==
  IF ds = <<>> THEN <<>>
  ELSE <<s * (Head(ds) % LimbBase), s * ((Head(ds) \div LimbBase) % LimbBase),
         s * (Head(ds) \div (LimbBase * LimbBase))>> \o DigitsToLimbs(Tail(ds), s)

\* The integer (sign ? -1 : +1) * SUM digits[i] * 2^(30 i) a value encodes.
IntOf(v) == DigitsToLimbs(v.digits, IF v.sign THEN -1 ELSE 1)

\* The integer of a small host number.
IntNum(k) == <<k % LimbBase, (k \div LimbBase) % LimbBase, k \div (LimbBase * LimbBase)>>

Coef(p, k) == IF k <= Len(p) THEN p[k] ELSE 0

IntAdd(p, q) == [k \in 1..Max(Len(p), Len(q)) |-> Coef(p, k) + Coef(q, k)]
IntNeg(p) == [k \in 1..Len(p) |-> 0 - p[k]]
IntSub(p, q) == IntAdd(p, IntNeg(q))

RECURSIVE ColumnSum(_, _, _, _)
ColumnSum(p, q, k, i) ==
  IF i > Len(p) THEN 0
  ELSE (IF k - i + 1 >= 1 /\ k - i + 1 <= Len(q) THEN p[i] * q[k - i + 1] ELSE 0)
       + ColumnSum(p, q, k, i + 1)

IntMul(p, q) ==
  IF p = <<>> \/ q = <<>> THEN <<>>
  ELSE [k \in 1..(Len(p) + Len(q) - 1) |-> ColumnSum(p, q, k, 1)]

\* 2^e.
IntPow2(e) == [k \in 1..(e \div 10 + 1) |-> IF k = e \div 10 + 1 THEN 2 ^ (e % 10) ELSE 0]

RECURSIVE Carry(_, _)
\* The coefficients reduced into 0..LimbBase-1 (d) and the carry out of the
\* top (c): the integer is SUM d[k] * LimbBase^(k-1) + c * LimbBase^Len(d).
Carry(p, c) ==
  IF p = <<>> THEN [d |-> <<>>, c |-> c]
  ELSE LET t == Head(p) + c
           r == Carry(Tail(p), t \div LimbBase)
       IN [d |-> <<t % LimbBase>> \o r.d, c |-> r.c]

RECURSIVE IntTrim(_)
\* The coefficients without their leading zeros.
IntTrim(p) ==
  IF p = <<>> \/ p[Len(p)] # 0 THEN p ELSE IntTrim(SubSeq(p, 1, Len(p) - 1))

\* A non-negative integer with every coefficient reduced below LimbBase.
IntReduce(p) == IntTrim(Carry(p, 0).d \o IntNum(Carry(p, 0).c))

RECURSIVE IntPower(_, _)
\* The non-negative p to the power e: p^e = p^(e div 2) * p^(e - e div 2).
IntPower(p, e) ==
  IF e = 0 THEN IntNum(1)
  ELSE IF e = 1 THEN IntReduce(p)
  ELSE IntReduce(IntMul(IntPower(p, e \div 2), IntPower(p, e - e \div 2)))

IntSgn(p) ==
  LET r == Carry(p, 0)
  IN IF r.c < 0 THEN -1
     ELSE IF r.c > 0 \/ \E k \in 1..Len(r.d) : r.d[k] # 0 THEN 1
     ELSE 0

IntEq(p, q) == IntSgn(IntSub(p, q)) = 0
IntLt(p, q) == IntSgn(IntSub(p, q)) < 0
IntLe(p, q) == IntSgn(IntSub(p, q)) <= 0

\* p is a multiple of 2^e.
IntDivisibleByPow2(p, e) ==
  LET r == Carry(p \o [k \in 1..(e \div 10 + 1) |-> 0], 0)
  IN /\ \A k \in 1..(e \div 10) : r.d[k] = 0
     /\ r.d[e \div 10 + 1] % (2 ^ (e % 10)) = 0

\* Limb k (from 0) of the infinite two's complement of p: the reduced
\* coefficient, or the sign extension past the top.
TwosLimb(r, k) ==
  IF k < Len(r.d) THEN r.d[k + 1] ELSE IF r.c < 0 THEN LimbBase - 1 ELSE 0

(***************************************************************************)
(* The inputs of the calls.                                                *)
(***************************************************************************)
DigitSamples == {0, 1, kHalfMask, kHalfMask + 1, kDigitMask}

\* Canonical magnitudes of 1..MaxLen digits: any sample as the lowest digit,
\* a non-zero sample as the top digit, all-zeros or all-ones in between.
Magnitudes ==
  {[k \in 1..len |-> IF k = len THEN hi ELSE IF k = 1 THEN lo ELSE mid] :
     len \in 1..MaxLen, lo \in DigitSamples, mid \in {0, kDigitMask},
     hi \in DigitSamples \ {0}}

\* Small one-digit values: shift distances, exponents, the base 2.
Amounts == {<<k>> : k \in {2, 3, 29, 30, 31, 60}}

Values == {__zero} \cup {JSBI(s, d) : s \in BOOLEAN, d \in Magnitudes \cup Amounts}

\* Values with as many digits as the scaled-down limit allows: all ones, a
\* lone top bit, and a full top digit over zeros.
FullLength ==
  {JSBI(s, [k \in 1..MaxLengthSmall |-> IF k = MaxLengthSmall THEN hi ELSE lo]) :
     s \in BOOLEAN, hi \in {1, kDigitMask}, lo \in {0, kDigitMask}}

\* Arguments of BigInt() that the chained specification starts from.
Seeds ==
  {BigInt([type |-> "number", value |-> NumberOfInt(v, FALSE)]) :
     v \in {0, 1, 2, 3, 30, kHalfMask + 1, kDigitMask}}
  \cup {BigInt([type |-> "boolean", value |-> v]) : v \in BOOLEAN}

\* Bit widths around every digit boundary an operand can have, and three that
\* lie beyond what MAX_LENGTH digits can hold.
Widths ==
  {w \in {30 * k + r : k \in 0..(MaxLen + 1), r \in {-1, 0, 1, 15, 16}} :
     w >= -1 /\ w <= 30 * MaxLen + 16}
  \cup {64, 30 * __kMaxLength + 1, __kMaxLengthBits, __kMaxLengthBits + 1}

Words == {<<0, 0, 0, 0>>, <<0, 0, 0, 1>>, <<255, 255, 255, 255>>,
          <<128, 0, 0, 0>>, <<63, 255, 255, 255>>, <<18, 52, 86, 120>>}

\* What lies in the buffer outside the eight bytes that are read.
Filler == <<170, 85, 170, 85>>

\* Twelve-byte buffers read at offset 0 or 4, in either byte order.
Views == {[bytes |-> IF o = 0 THEN w1 \o w2 \o Filler ELSE Filler \o w1 \o w2,
           byteOffset |-> o, littleEndian |-> le] :
            w1 \in Words, w2 \in Words, o \in {0, 4}, le \in BOOLEAN}

\* Twelve-byte buffers written at offset 0, 4 or 8 (where only four bytes
\* are left), in either byte order.
WriteViews == {[bytes |-> Filler \o w \o Filler, byteOffset |-> o, littleEndian |-> le] :
                 w \in {<<18, 52, 86, 120>>, <<255, 255, 255, 255>>},
                 o \in {0, 4, 8}, le \in BOOLEAN}

NoView == [bytes |-> <<>>, byteOffset |-> 0, littleEndian |-> FALSE]

\* The radixes toString is asked for: all it accepts and one beyond each end.
Radixes == 1..37

\* Arguments of BigInt(string): signs, prefixes, whitespace, digits that span
\* more than one part, and strings that do not parse.
Strings ==
  { <<>>,                                   \* ""
    <<32>>,                                 \* " "
    <<48>>,                                 \* "0"
    <<45>>,                                 \* "-"
    <<43, 53>>,                             \* "+5"
    <<45, 49, 50>>,                         \* "-12"
    <<32, 52, 50, 32>>,                     \* " 42 "
    <<49, 50, 97>>,                         \* "12a"
    <<52, 32, 50>>,                         \* "4 2"
    <<48, 120>>,                            \* "0x"
    <<48, 120, 49, 70>>,                    \* "0x1F"
    <<48, 98, 49, 48, 49>>,                 \* "0b101"
    <<48, 111, 49, 55>>,                    \* "0o17"
    <<45, 48, 120, 49>>,                    \* "-0x1"
    <<48, 48, 55>>,                         \* "007"
    <<32, 32>>,                             \* "  "
    <<43>>,                                 \* "+"
    <<43, 32>>,                             \* "+ "
    <<45, 32, 32>>,                         \* "-  "
    <<45, 48>>,                             \* "-0"
    <<45, 48, 48>>,                         \* "-00"
    <<43, 32, 53>>,                         \* "+ 5"
    <<48, 120, 32>>,                        \* "0x "
    <<48, 98, 32, 32>>,                     \* "0b  "
    <<48, 111, 32>>,                        \* "0o "
    <<48, 98>>,                             \* "0b"
    <<48, 79>>,                             \* "0O"
    <<48, 88, 65>>,                         \* "0XA"
    <<48, 66, 49>>,                         \* "0B1"
    <<48, 79, 55>>,                         \* "0O7"
    <<48, 111, 56>>,                        \* "0o8"
    <<48, 120, 49, 103>>,                   \* "0x1g"
    <<43, 48, 120, 49>>,                    \* "+0x1"
    <<45, 48, 98, 49>>,                     \* "-0b1"
    <<43, 48, 111, 55>>,                    \* "+0o7"
    <<45, 48, 120, 32>>,                    \* "-0x "
    <<45, 48, 120>>,                        \* "-0x"
    <<45, 55, 32, 9>>,                      \* "-7 \t"
    <<48, 120, 49, 70, 32>>,                \* "0x1F "
    <<49, 50, 32, 160, 51>>,                \* "12 \u00a03"
    <<49, 50, 32, 32, 97>>,                 \* "12  a"
    <<55, 45>>,                             \* "7-"
    <<57, 57, 57, 57, 57, 57, 57, 57, 57, 57, 120>>,            \* "9999999999x"
    <<48, 120, 102, 102, 102, 102, 102, 102, 102, 102, 102>>,   \* "0xfffffffff"
    <<45, 49, 50, 51, 52, 53, 54, 55, 56, 57, 48, 49, 50>> }    \* "-123456789012"

\* What the module leaves in the conversion buffer when it loads:
\* __detectBigEndian writes -0.0.
LoadScratch == Number(TRUE, 0, 0, ZeroWord)

OnesWord == [k \in 1..32 |-> 1] \o <<>>

\* Mantissas: 1.0, all ones, the lowest bit alone, and a mixed pattern.
MantissaSamples ==
  {[high |-> 0, low |-> ZeroWord], [high |-> 1048575, low |-> OnesWord],
   [high |-> 0, low |-> WordOf(1)],
   [high |-> 370085, low |-> WordOr(Shl(WordOf(42330), 16), WordOf(22136))]}

\* Biased exponents: zero and the subnormals, one half, one, the digit and
\* mantissa boundaries, the largest finite one, and Infinity and NaN.
ExponentSamples ==
  {0, 1022, 2046, 2047}
  \cup {1023 + e : e \in {0, 1, 20, 21, 29, 30, 50, 52, 53, 54, 59, 60}}

Doubles ==
  {Number(sign, e, m.high, m.low) :
     sign \in BOOLEAN, e \in ExponentSamples, m \in MantissaSamples}

\* Bit i of the value of L bits whose 53 top bits are a one followed by the
\* mantissa kind mant, and whose bits below them are the kind tail: nothing,
\* less than half a unit of the mantissa, half, or more than half.
ShapeBit(L, mant, tail, i) ==
  IF i = L - 1 THEN 1
  ELSE IF L - 1 - i <= 52
  THEN (IF mant = "ones" THEN 1
        ELSE IF mant = "odd" /\ L - 1 - i = 52 THEN 1 ELSE 0)
  ELSE IF tail = "half" THEN (IF L - 1 - i = 53 THEN 1 ELSE 0)
  ELSE IF tail = "below" THEN (IF i = 0 /\ L - 1 - i > 53 THEN 1 ELSE 0)
  ELSE IF tail = "above" THEN (IF i = 0 \/ L - 1 - i = 53 THEN 1 ELSE 0)
  ELSE 0

RECURSIVE ShapeDigit(_, _, _, _, _)
\* Digit k (from 0) of that value, from its bit b up.
ShapeDigit(L, mant, tail, k, b) ==
  IF b > 29 \/ 30 * k + b >= L THEN 0
  ELSE ShapeBit(L, mant, tail, 30 * k + b) * Pow2(b) + ShapeDigit(L, mant, tail, k, b + 1)

Shape(L, mant, tail, sign) ==
  JSBI(sign, [k \in 1..((L + 29) \div 30) |-> ShapeDigit(L, mant, tail, k - 1, 0)] \o <<>>)

\* Bit lengths that pair with the exponents sampled, and one past the
\* largest a finite number has.
ShapeLengths == {1, 2, 21, 22, 30, 31, 51, 53, 54, 55, 60, 61, 1024, 1025}

NumberValues ==
  {__zero}
  \cup {Shape(L, mant, tail, sign) :
          L \in ShapeLengths, mant \in {"zeros", "ones", "odd"},
          tail \in {"none", "below", "half", "above"}, sign \in BOOLEAN}

\* The few numbers and values the other specifications offer.
FewNumbers ==
  {Number(TRUE, 1023 + 53, 1048575, OnesWord), Number(FALSE, 1022, 0, ZeroWord)}

FewValues == {Shape(54, "ones", "half", TRUE)}

\* The numbers and the values a specification offers to the calls on numbers.
numbers == IF sample = "many" THEN Doubles ELSE FewNumbers
wide == IF sample = "many" THEN NumberValues ELSE FewValues

\* A value is compared with the numbers of its own bit length, and zero and
\* the one-bit values with every number.
CompareOffered(a, d) ==
  IF Len(a.digits) = 0 THEN TRUE
  ELSE IF Len(a.digits) = 1 /\ a.digits[1] = 1 THEN TRUE
  ELSE Len(a.digits) * 30 - __clz30(a.digits[Len(a.digits)]) = RawExponent(d) - 1022

NoText == [kind |-> "none", chars |-> <<>>]

\* A left shift that is carried out stays within MaxShift bits; the others
\* offered are the ones the code refuses.
LeftShiftOffered(a, b) ==
  IF Len(a.digits) = 0 \/ Len(b.digits) # 1 THEN TRUE
  ELSE \/ b.digits[1] <= MaxShift
       \/ Len(a.digits) + (b.digits[1] \div 30) > __kMaxLength

ExponentOffered(a, b) ==
  IF b.sign \/ Len(b.digits) # 1 \/ Len(a.digits) = 0 THEN TRUE
  ELSE IF Len(a.digits) = 1 /\ a.digits[1] = 1 THEN TRUE
  ELSE IF Len(a.digits) = 1 /\ a.digits[1] = 2
  THEN \/ b.digits[1] <= MaxShift
       \/ 1 + (b.digits[1] \div 30) > __kMaxLength
  ELSE b.digits[1] <= MaxExp

\* A result small enough to be an operand of a later call.
Feed(r) == IF IsValue(r) /\ Len(r.digits) <= MaxLen THEN pool \cup {r} ELSE pool

(***************************************************************************)
(* The state machine: one action per exported operation.  x, y, n and view *)
(* are the arguments of the last call, res what it returned or threw.      *)
(***************************************************************************)
Init ==
  /\ maxLength = kMaxLength
  /\ x = __zero /\ y = __zero /\ n = 0 /\ op = "init" /\ res = __zero
  /\ origin = "new" /\ view = NoView /\ before = <<>>
  /\ text = NoText /\ budget = 1 /\ pool = Values
  /\ num = PlusZero /\ scratch = LoadScratch /\ stale = LoadScratch
  /\ sample = "few"

InitSeq ==
  /\ maxLength = kMaxLength
  /\ x = __zero /\ y = __zero /\ n = 0 /\ op = "init" /\ res = __zero
  /\ origin = "new" /\ view = NoView /\ before = <<>>
  /\ text = NoText /\ budget = MaxCalls /\ pool = Seeds
  /\ num = PlusZero /\ scratch = LoadScratch /\ stale = LoadScratch
  /\ sample = "few"

\* Single calls of the scaled-down build, on operands up to its limit.
InitSmall ==
  /\ maxLength = MaxLengthSmall
  /\ x = __zero /\ y = __zero /\ n = 0 /\ op = "init" /\ res = __zero
  /\ origin = "new" /\ view = NoView /\ before = <<>>
  /\ text = NoText /\ budget = 1 /\ pool = Values \cup FullLength
  /\ num = PlusZero /\ scratch = LoadScratch /\ stale = LoadScratch
  /\ sample = "few"

\* Single calls on the sampled numbers and on the values around them.
InitNum ==
  /\ maxLength = kMaxLength
  /\ x = __zero /\ y = __zero /\ n = 0 /\ op = "init" /\ res = __zero
  /\ origin = "new" /\ view = NoView /\ before = <<>>
  /\ text = NoText /\ budget = 1 /\ pool = Values
  /\ num = PlusZero /\ scratch = LoadScratch /\ stale = LoadScratch
  /\ sample = "many"

\* The operands are handed over as the objects "x" and "y"; r is what the
\* call made of them, res what it holds and origin which object it is.
Binary(name, a, b, r) ==
  /\ x' = a /\ y' = b /\ op' = name /\ res' = Plain(r) /\ origin' = Origin(r)
  /\ budget' = budget - 1 /\ pool' = Feed(Plain(r))
  /\ UNCHANGED <<maxLength, n, view, before, text>>
  /\ UNCHANGED <<num, scratch, stale, sample>>

Unary(name, a, r) ==
  /\ x' = a /\ op' = name /\ res' = Plain(r) /\ origin' = Origin(r)
  /\ budget' = budget - 1 /\ pool' = Feed(Plain(r))
  /\ UNCHANGED <<maxLength, y, n, view, before, text>>
  /\ UNCHANGED <<num, scratch, stale, sample>>

Width(name, w, a, r) ==
  /\ x' = a /\ n' = w /\ op' = name /\ res' = Plain(r) /\ origin' = Origin(r)
  /\ budget' = budget - 1 /\ pool' = Feed(Plain(r))
  /\ UNCHANGED <<maxLength, y, view, before, text>>
  /\ UNCHANGED <<num, scratch, stale, sample>>

\* A call that reads the view v.
Read(name, v, r) ==
  /\ view' = v /\ before' = v.bytes /\ op' = name /\ res' = r /\ origin' = "new"
  /\ budget' = budget - 1 /\ pool' = Feed(r)
  /\ UNCHANGED <<maxLength, x, y, n, text>>
  /\ UNCHANGED <<num, scratch, stale, sample>>

\* A call that writes the value a into the view v: w is the view afterwards
\* and what the call returned or threw, before the bytes it found.
Write(name, v, a, w) ==
  /\ view' = [v EXCEPT !.bytes = w.bytes] /\ before' = v.bytes
  /\ x' = a /\ op' = name /\ res' = w.outcome /\ origin' = "new"
  /\ budget' = budget - 1
  /\ UNCHANGED <<maxLength, y, n, text, pool>>
  /\ UNCHANGED <<num, scratch, stale, sample>>

\* A call that returns a string: text is what it returned or threw.
Render(name, a, radix, t) ==
  /\ x' = a /\ n' = radix /\ op' = name /\ text' = t
  /\ budget' = budget - 1
  /\ UNCHANGED <<maxLength, y, res, origin, view, before, pool>>
  /\ UNCHANGED <<num, scratch, stale, sample>>

\* A call that takes a string.
Parse(name, string, r) ==
  /\ text' = String(string) /\ op' = name /\ res' = r /\ origin' = "new"
  /\ budget' = budget - 1 /\ pool' = Feed(r)
  /\ UNCHANGED <<maxLength, x, y, n, view, before>>
  /\ UNCHANGED <<num, scratch, stale, sample>>

Add ==
  /\ budget > 0
  /\ \E a \in pool, b \in pool : Binary("add", a, b, add(Handed(a, "x"), Handed(b, "y")))
Subtract ==
  /\ budget > 0
  /\ \E a \in pool, b \in pool : Binary("subtract", a, b, subtract(Handed(a, "x"), Handed(b, "y")))
Multiply ==
  /\ budget > 0
  /\ \E a \in pool, b \in pool : Binary("multiply", a, b, multiply(Handed(a, "x"), Handed(b, "y")))
Divide ==
  /\ budget > 0
  /\ \E a \in pool, b \in pool : Binary("divide", a, b, divide(Handed(a, "x"), Handed(b, "y")))
Remainder ==
  /\ budget > 0
  /\ \E a \in pool, b \in pool : Binary("remainder", a, b, remainder(Handed(a, "x"), Handed(b, "y")))
Exponentiate ==
  /\ budget > 0
  /\ \E a \in pool, b \in pool :
    ExponentOffered(a, b) /\ Binary("exponentiate", a, b, exponentiate(Handed(a, "x"), Handed(b, "y")))
UnaryMinus ==
  /\ budget > 0
  /\ \E a \in pool : Unary("unaryMinus", a, unaryMinus(Handed(a, "x")))
BitwiseNot ==
  /\ budget > 0
  /\ \E a \in pool : Unary("bitwiseNot", a, bitwiseNot(Handed(a, "x")))
BitwiseAnd ==
  /\ budget > 0
  /\ \E a \in pool, b \in pool : Binary("bitwiseAnd", a, b, bitwiseAnd(Handed(a, "x"), Handed(b, "y")))
BitwiseOr ==
  /\ budget > 0
  /\ \E a \in pool, b \in pool : Binary("bitwiseOr", a, b, bitwiseOr(Handed(a, "x"), Handed(b, "y")))
BitwiseXor ==
  /\ budget > 0
  /\ \E a \in pool, b \in pool : Binary("bitwiseXor", a, b, bitwiseXor(Handed(a, "x"), Handed(b, "y")))
LeftShift ==
  /\ budget > 0
  /\ \E a \in pool, b \in pool :
    (IF b.sign THEN TRUE ELSE LeftShiftOffered(a, b)) /\ Binary("leftShift", a, b, leftShift(Handed(a, "x"), Handed(b, "y")))
SignedRightShift ==
  /\ budget > 0
  /\ \E a \in pool, b \in pool :
    (IF b.sign THEN LeftShiftOffered(a, b) ELSE TRUE)
    /\ Binary("signedRightShift", a, b, signedRightShift(Handed(a, "x"), Handed(b, "y")))
AsIntN ==
  /\ budget > 0
  /\ \E w \in Widths, a \in pool : Width("asIntN", w, a, asIntN(w, Handed(a, "x")))
AsUintN ==
  /\ budget > 0
  /\ \E w \in Widths, a \in pool : Width("asUintN", w, a, asUintN(w, Handed(a, "x")))
GetBigUint64 ==
  /\ budget > 0
  /\ \E v \in Views :
    Read("DataViewGetBigUint64", v,
         DataViewGetBigUint64(v.bytes, v.byteOffset, v.littleEndian))
GetBigInt64 ==
  /\ budget > 0
  /\ \E v \in Views :
    Read("DataViewGetBigInt64", v,
         DataViewGetBigInt64(v.bytes, v.byteOffset, v.littleEndian))
SetBigUint64 ==
  /\ budget > 0
  /\ \E v \in WriteViews, a \in pool :
    Write("DataViewSetBigUint64", v, a,
          DataViewSetBigUint64(v.bytes, v.byteOffset, a, v.littleEndian))
SetBigInt64 ==
  /\ budget > 0
  /\ \E v \in WriteViews, a \in pool :
    Write("DataViewSetBigInt64", v, a,
          DataViewSetBigInt64(v.bytes, v.byteOffset, a, v.littleEndian))
ToStringOf ==
  /\ budget > 0
  /\ \E a \in pool, radix \in Radixes : Render("toString", a, radix, toString(a, radix))
BigIntOfString ==
  /\ budget > 0
  /\ \E string \in Strings :
    Parse("BigInt", string, BigInt([type |-> "string", value |-> string]))
LessThan ==
  /\ budget > 0
  /\ \E a \in pool, b \in pool : Binary("lessThan", a, b, Boolean(lessThan(a, b)))
LessThanOrEqual ==
  /\ budget > 0
  /\ \E a \in pool, b \in pool :
    Binary("lessThanOrEqual", a, b, Boolean(lessThanOrEqual(a, b)))
GreaterThan ==
  /\ budget > 0
  /\ \E a \in pool, b \in pool : Binary("greaterThan", a, b, Boolean(greaterThan(a, b)))
GreaterThanOrEqual ==
  /\ budget > 0
  /\ \E a \in pool, b \in pool :
    Binary("greaterThanOrEqual", a, b, Boolean(greaterThanOrEqual(a, b)))
Equal ==
  /\ budget > 0
  /\ \E a \in pool, b \in pool : Binary("equal", a, b, Boolean(equal(a, b)))
NotEqual ==
  /\ budget > 0
  /\ \E a \in pool, b \in pool : Binary("notEqual", a, b, Boolean(notEqual(a, b)))

\* A call that compares the value a with the number d, the number being the
\* left operand when side = 1: r is [out, scratch].
Mixed(name, a, d, side, r) ==
  /\ x' = a /\ num' = d /\ n' = side /\ op' = name /\ res' = r.out /\ origin' = "new"
  /\ stale' = scratch /\ scratch' = r.scratch /\ budget' = budget - 1
  /\ UNCHANGED <<maxLength, y, view, before, text, pool, sample>>

ToNumberOf ==
  /\ budget > 0
  /\ \E a \in pool \cup wide :
       /\ x' = a /\ op' = "toNumber" /\ num' = toNumber(a, scratch).value
       /\ stale' = scratch /\ scratch' = toNumber(a, scratch).scratch
       /\ budget' = budget - 1
       /\ UNCHANGED <<maxLength, y, n, res, origin, view, before, text, pool,
                      sample>>
BigIntOfNumber ==
  /\ budget > 0
  /\ \E d \in numbers :
       /\ num' = d /\ op' = "BigIntNumber" /\ res' = BigIntNumber(d, scratch).out
       /\ origin' = "new" /\ stale' = scratch
       /\ scratch' = BigIntNumber(d, scratch).scratch
       /\ budget' = budget - 1 /\ pool' = Feed(BigIntNumber(d, scratch).out)
       /\ UNCHANGED <<maxLength, x, y, n, view, before, text, sample>>
MixedLT ==
  /\ budget > 0
  /\ \E a \in wide, d \in numbers, side \in {0, 1} :
       CompareOffered(a, d) /\ Mixed("LT", a, d, side, LT(a, d, side = 1, scratch))
MixedLE ==
  /\ budget > 0
  /\ \E a \in wide, d \in numbers, side \in {0, 1} :
       CompareOffered(a, d) /\ Mixed("LE", a, d, side, LE(a, d, side = 1, scratch))
MixedGT ==
  /\ budget > 0
  /\ \E a \in wide, d \in numbers, side \in {0, 1} :
       CompareOffered(a, d) /\ Mixed("GT", a, d, side, GT(a, d, side = 1, scratch))
MixedGE ==
  /\ budget > 0
  /\ \E a \in wide, d \in numbers, side \in {0, 1} :
       CompareOffered(a, d) /\ Mixed("GE", a, d, side, GE(a, d, side = 1, scratch))
MixedEQ ==
  /\ budget > 0
  /\ \E a \in wide, d \in numbers, side \in {0, 1} :
       CompareOffered(a, d) /\ Mixed("EQ", a, d, side, EQ(a, d, side = 1, scratch))
MixedNE ==
  /\ budget > 0
  /\ \E a \in wide, d \in numbers, side \in {0, 1} :
       CompareOffered(a, d) /\ Mixed("NE", a, d, side, NE(a, d, side = 1, scratch))

Next ==
  \/ Add \/ Subtract \/ Multiply \/ Divide \/ Remainder \/ Exponentiate
  \/ UnaryMinus \/ BitwiseNot \/ BitwiseAnd \/ BitwiseOr \/ BitwiseXor
  \/ LeftShift \/ SignedRightShift \/ AsIntN \/ AsUintN
  \/ GetBigUint64 \/ GetBigInt64 \/ SetBigUint64 \/ SetBigInt64
  \/ ToStringOf \/ BigIntOfString
  \/ LessThan \/ LessThanOrEqual \/ GreaterThan \/ GreaterThanOrEqual
  \/ Equal \/ NotEqual
  \/ ToNumberOf \/ BigIntOfNumber
  \/ MixedLT \/ MixedLE \/ MixedGT \/ MixedGE \/ MixedEQ \/ MixedNE

\* Single calls on sampled operands.
Spec == Init /\ [][Next]_vars

\* Chains of calls that start from what BigInt() builds.
SpecSeq == InitSeq /\ [][Next]_vars

\* Single calls with the limit within reach.
SpecSmall == InitSmall /\ [][Next]_vars

\* Single calls that take or return numbers.
SpecNum == InitNum /\ [][Next]_vars

(***************************************************************************)
(* Vocabulary of the claims.                                               *)
(***************************************************************************)
\* The canonical form: digits in 0..2^30-1, no leading zero digit, and the
\* only encoding of zero is the empty digit vector with sign = FALSE.
Canonical(v) ==
  /\ IsValue(v)
  /\ \A k \in 1..Len(v.digits) : v.digits[k] >= 0 /\ v.digits[k] <= kDigitMask
  /\ Len(v.digits) > 0 => v.digits[Len(v.digits)] # 0
  /\ Len(v.digits) = 0 => ~v.sign

\* |v| as an integer.
IntAbs(v) == DigitsToLimbs(v.digits, 1)

\* Bit i (from 0) of the infinite two's complement of an integer, given its
\* reduced coefficients r = Carry(p, 0).
TwosBit(r, i) == (TwosLimb(r, i \div 10) \div (2 ^ (i % 10))) % 2

\* Bit positions that cover every digit of the operands of the last call and
\* of its result, and the sign extension above them.
BitPositions == 0..(30 * (Max(Len(x.digits), Max(Len(y.digits), Len(res.digits))) + 1))

(***************************************************************************)
(* C2: for b # 0, with q = divide(a, b) and r = remainder(a, b):           *)
(* add(multiply(q, b), r) = a, |r| < |b|, r is zero or has the sign of a;  *)
(* when |a| < |b|, q is zero and r is a.                                   *)
(***************************************************************************)
DivisionHolds(q, r) ==
  /\ Canonical(q) /\ Canonical(r)
  /\ IsValue(multiply(q, y)) /\ add(multiply(q, y), r) = x
  /\ IntEq(IntAdd(IntMul(IntOf(q), IntOf(y)), IntOf(r)), IntOf(x))
  /\ IntLt(IntAbs(r), IntAbs(y))
  /\ r = __zero \/ r.sign = x.sign
  /\ IntLt(IntAbs(x), IntAbs(y)) => q = __zero /\ r = x

DivisionIdentity ==
  /\ (op = "divide" /\ y # __zero) => DivisionHolds(res, remainder(x, y))
  /\ (op = "remainder" /\ y # __zero) => DivisionHolds(divide(x, y), res)

\* A long division (two-digit divisor) of a negative by a positive value with
\* a non-zero quotient and a non-zero remainder.
DivisionWitness ==
  /\ op = "divide" /\ Len(y.digits) = 2 /\ Len(x.digits) = 2
  /\ x.sign /\ ~y.sign /\ res # __zero /\ remainder(x, y) # __zero

(***************************************************************************)
(* C3: add(a, b) is the integer a + b and subtract(a, b) the integer a - b *)
(* for all signs and magnitudes; add commutes, subtract(a, a) and          *)
(* add(a, -a) are the canonical zero.                                      *)
(***************************************************************************)
AddSubtractExact ==
  /\ op = "add" =>
       /\ Canonical(res)
       /\ IntEq(IntOf(res), IntAdd(IntOf(x), IntOf(y)))
       /\ res = add(y, x)
       /\ y = unaryMinus(x) => res = __zero
  /\ op = "subtract" =>
       /\ Canonical(res)
       /\ IntEq(IntOf(res), IntSub(IntOf(x), IntOf(y)))
       /\ x = y => res = __zero

\* Operands of opposite signs, the second of larger magnitude, two digits.
AddSubtractWitness ==
  /\ op = "add" /\ x.sign /\ ~y.sign /\ Len(x.digits) = 2
  /\ IntLt(IntAbs(x), IntAbs(y)) /\ Len(res.digits) = 2 /\ ~res.sign

(***************************************************************************)
(* C4: multiply(a, b) is the integer a * b, negative exactly when the      *)
(* signs differ and the product is not zero; it commutes; a * 1 = a and    *)
(* a * 0 = 0; the result buffer has |a|.length + |b|.length slots, one     *)
(* fewer iff the leading zeros of the top digits total 30 or more, and the *)
(* accumulation never touches a slot past its end.                         *)
(***************************************************************************)
MultiplyExact ==
  op = "multiply" =>
    /\ Canonical(res)
    /\ IntEq(IntOf(res), IntMul(IntOf(x), IntOf(y)))
    /\ res # __zero => res.sign = (x.sign # y.sign)
    /\ res = multiply(y, x)
    /\ y = __oneDigit(1, FALSE) => res = x
    /\ (x = __zero \/ y = __zero) => res = __zero
    /\ (x # __zero /\ y # __zero) =>
         /\ ~multiplyBuffer(x, y).oob
         /\ Len(multiplyBuffer(x, y).acc) =
              Len(x.digits) + Len(y.digits)
              - (IF __clz30(x.digits[Len(x.digits)]) + __clz30(y.digits[Len(y.digits)]) >= 30
                 THEN 1 ELSE 0)

\* Two two-digit operands whose top digits leave exactly 30 leading zeros,
\* so that the buffer is one slot short of the sum of the lengths and full.
MultiplyWitness ==
  /\ op = "multiply" /\ Len(x.digits) = 2 /\ Len(y.digits) = 2
  /\ __clzmsd(x) + __clzmsd(y) = 30 /\ Len(res.digits) = 3 /\ res.sign

(***************************************************************************)
(* C5: bitwiseAnd, bitwiseOr and bitwiseXor are AND, OR and XOR applied    *)
(* bit by bit to the infinite two's complements of the operands, for all   *)
(* four sign combinations and unequal digit counts; a & a = a, a | a = a,  *)
(* a ^ a = 0.                                                              *)
(***************************************************************************)
BitwiseTwosComplement ==
  LET bx == Carry(IntOf(x), 0)
      by == Carry(IntOf(y), 0)
      br == Carry(IntOf(res), 0)
  IN /\ op = "bitwiseAnd" =>
          /\ Canonical(res)
          /\ \A i \in BitPositions : TwosBit(br, i) = TwosBit(bx, i) * TwosBit(by, i)
          /\ x = y => res = x
     /\ op = "bitwiseOr" =>
          /\ Canonical(res)
          /\ \A i \in BitPositions : TwosBit(br, i) = Max(TwosBit(bx, i), TwosBit(by, i))
          /\ x = y => res = x
     /\ op = "bitwiseXor" =>
          /\ Canonical(res)
          /\ \A i \in BitPositions :
               TwosBit(br, i) = (TwosBit(bx, i) + TwosBit(by, i)) % 2
          /\ x = y => res = __zero

\* A negative two-digit operand against a positive one-digit operand whose
\* XOR carries into a third digit.
BitwiseWitness ==
  /\ op = "bitwiseXor" /\ x.sign /\ ~y.sign
  /\ Len(x.digits) = 2 /\ Len(y.digits) = 1 /\ Len(res.digits) = 3

(***************************************************************************)
(* C8: bitwiseNot(a) is -a - 1: magnitude |a| + 1 and negative for a >= 0, *)
(* magnitude |a| - 1 and non-negative for a < 0; ~(-1) is the canonical    *)
(* zero, ~0 is -1, and ~~a = a.                                            *)
(***************************************************************************)
BitwiseNotExact ==
  op = "bitwiseNot" =>
    /\ Canonical(res)
    /\ IntEq(IntOf(res), IntSub(IntNeg(IntOf(x)), IntNum(1)))
    /\ ~x.sign => res.sign /\ IntEq(IntAbs(res), IntAdd(IntAbs(x), IntNum(1)))
    /\ x.sign => ~res.sign /\ IntEq(IntAbs(res), IntSub(IntAbs(x), IntNum(1)))
    /\ x = __oneDigit(1, TRUE) => res = __zero
    /\ x = __zero => res = __oneDigit(1, TRUE)
    /\ bitwiseNot(res) = x

\* The increment carries out of an all-ones magnitude into a new top digit.
BitwiseNotWitness ==
  /\ op = "bitwiseNot" /\ ~x.sign /\ Len(x.digits) = 2
  /\ Len(res.digits) = 3 /\ bitwiseNot(res) = x

(***************************************************************************)
(* More vocabulary: bit lengths and when a width or a shift is small       *)
(* enough for 2^n to be written out.                                       *)
(***************************************************************************)
\* Number of bits of |v|.
BitLen(v) ==
  IF Len(v.digits) = 0 THEN 0
  ELSE 30 * (Len(v.digits) - 1) + BitLength(v.digits[Len(v.digits)])

\* The shift amount or exponent a non-negative value of at most one digit holds.
AmountOf(v) == IF Len(v.digits) = 0 THEN 0 ELSE v.digits[1]

OneDigitAmount(v) == ~v.sign /\ Len(v.digits) <= 1

MinusOne == __oneDigit(1, TRUE)

\* r = floor(a / 2^k): r * 2^k <= a < (r + 1) * 2^k.
IsFloorShift(r, a, k) ==
  /\ IntLe(IntMul(IntOf(r), IntPow2(k)), IntOf(a))
  /\ IntLt(IntOf(a), IntMul(IntAdd(IntOf(r), IntNum(1)), IntPow2(k)))

\* signedRightShift(x, y) = floor(x / 2^y) for the last call; a distance
\* beyond the bits of x leaves 0 or -1.
RightShiftFloors ==
  /\ Canonical(res)
  /\ IF AmountOf(y) > BitLen(x)
     THEN res = (IF x.sign THEN MinusOne ELSE __zero)
     ELSE IsFloorShift(res, x, AmountOf(y))

\* Digits x * 2^y needs.
LeftShiftDigits == (BitLen(x) + AmountOf(y) + 29) \div 30

LeftShiftExact ==
  /\ Canonical(res)
  /\ IntEq(IntOf(res), IntMul(IntOf(x), IntPow2(AmountOf(y))))
  /\ ~x.sign => signedRightShift(res, y) = x

(***************************************************************************)
(* C6 as stated: for every a and every non-negative one-digit amount n,    *)
(* signedRightShift(a, n) = floor(a / 2^n), leftShift(a, n) = a * 2^n and  *)
(* signedRightShift(leftShift(a, n), n) = a when a >= 0.                   *)
(***************************************************************************)
ShiftsExactForEveryAmount ==
  /\ (op = "signedRightShift" /\ OneDigitAmount(y)) => RightShiftFloors
  /\ (op = "leftShift" /\ OneDigitAmount(y)) => IsValue(res) /\ LeftShiftExact

(***************************************************************************)
(* C6 amended: as above, but leftShift(a, n) is a * 2^n only when a is     *)
(* zero or a * 2^n fits in MAX_LENGTH digits; otherwise it throws a        *)
(* RangeError.                                                             *)
(***************************************************************************)
ShiftsExactWithinMaxLength ==
  /\ (op = "signedRightShift" /\ OneDigitAmount(y)) => RightShiftFloors
  /\ (op = "leftShift" /\ OneDigitAmount(y)) =>
       IF x = __zero \/ LeftShiftDigits <= __kMaxLength
       THEN IsValue(res) /\ LeftShiftExact
       ELSE res = Throw("RangeError")

\* A negative value whose rounded quotient carries into a new top digit:
\* -(2^60 - 2^30 + 1) >> 30 = -2^30.
ShiftWitness ==
  /\ op = "signedRightShift" /\ x = JSBI(TRUE, <<1, kDigitMask>>)
  /\ y = __oneDigit(30, FALSE) /\ res = JSBI(TRUE, <<0, 1>>)

(***************************************************************************)
(* C7: signedRightShift(x, n) with n >= 0 beyond the bit length of |x| is  *)
(* 0 for x >= 0 and -1 for x < 0, also when n has more than one digit      *)
(* (the decoder reports overflow), and no error is raised.                 *)
(***************************************************************************)
RightShiftBeyondLength ==
  (/\ op = "signedRightShift" /\ ~y.sign
   /\ (Len(y.digits) > 1 \/ AmountOf(y) > BitLen(x))) =>
    res = (IF x.sign THEN MinusOne ELSE __zero)

\* A negative value shifted by a two-digit amount.
RightShiftBeyondWitness ==
  /\ op = "signedRightShift" /\ ~y.sign /\ Len(y.digits) = 2
  /\ x.sign /\ Len(x.digits) = 2 /\ res = MinusOne

\* res is x modulo 2^n for the last call: read off x when x is already in
\* range, else checked against 2^n written out.
UintWraps ==
  /\ Canonical(res)
  /\ IF ~x.sign /\ n >= BitLen(x) THEN res = x
     ELSE /\ ~res.sign
          /\ IntLt(IntOf(res), IntPow2(n))
          /\ IntDivisibleByPow2(IntSub(IntOf(res), IntOf(x)), n)
  /\ asUintN(n, res) = res

(***************************************************************************)
(* C9 as stated: for every n >= 0 and every a, asUintN(n, a) is the        *)
(* integer in [0, 2^n) congruent to a modulo 2^n, and applying asUintN(n,  *)
(* .) again changes nothing.                                               *)
(***************************************************************************)
AsUintNWrapsForEveryWidth ==
  (op = "asUintN" /\ n >= 0) => IsValue(res) /\ UintWraps

(***************************************************************************)
(* C9 amended: as above, except that for a negative a and n above          *)
(* 30 * MAX_LENGTH, where 2^n - |a| needs more than MAX_LENGTH digits,     *)
(* asUintN throws a RangeError.                                            *)
(***************************************************************************)
AsUintNWrapsWithinMaxLength ==
  (op = "asUintN" /\ n >= 0) =>
    IF x.sign /\ n > 30 * __kMaxLength
    THEN res = Throw("RangeError")
    ELSE IsValue(res) /\ UintWraps

\* A negative two-digit value wrapped to 64 bits.
AsUintNWitness ==
  /\ op = "asUintN" /\ n = 64 /\ x.sign /\ Len(x.digits) = 2
  /\ ~res.sign /\ Len(res.digits) = 3

(***************************************************************************)
(* C10: for every n >= 1 and every a, asIntN(n, a) is the integer in       *)
(* [-2^(n-1), 2^(n-1)) congruent to a modulo 2^n; a = -2^(n-1) comes back  *)
(* unchanged, and an a whose low n bits are zero gives the canonical zero. *)
(***************************************************************************)
AsIntNWraps ==
  (op = "asIntN" /\ n >= 1) =>
    /\ Canonical(res)
    /\ IF n > BitLen(x) THEN res = x
       ELSE /\ IntLe(IntNeg(IntPow2(n - 1)), IntOf(res))
            /\ IntLt(IntOf(res), IntPow2(n - 1))
            /\ IntDivisibleByPow2(IntSub(IntOf(res), IntOf(x)), n)
            /\ (x.sign /\ IntEq(IntAbs(x), IntPow2(n - 1))) => res = x
            /\ IntDivisibleByPow2(IntOf(x), n) => res = __zero

\* A positive two-digit value with bit n-1 set wraps to a negative one.
AsIntNWitness ==
  /\ op = "asIntN" /\ n = 46 /\ ~x.sign /\ Len(x.digits) = 2
  /\ res.sign /\ Len(res.digits) = 2

(***************************************************************************)
(* C1: from values built by BigInt(), after any sequence of calls every    *)
(* returned value is canonical: digits in [0, 2^30), top digit not zero,   *)
(* zero only as the empty digit vector with sign = FALSE.                  *)
(***************************************************************************)
CanonicalClosure ==
  /\ \A v \in pool : Canonical(v)
  /\ (op # "init" /\ IsValue(res)) => Canonical(res)

\* A chain of MaxCalls calls that ends by cancelling a negative value to zero.
CanonicalWitness ==
  /\ budget = 0 /\ op = "add" /\ x.sign /\ ~y.sign /\ res = __zero

(***************************************************************************)
(* C11 as stated: for every a of either sign and every radix r in 2..36,   *)
(* parsing toString(a, r) with radix r succeeds and gives back a.          *)
(***************************************************************************)
StringRoundTripForEverySign ==
  (op = "toString" /\ n \in 2..36) =>
    IsString(text) /\ __fromString(text.chars, n) = x

(***************************************************************************)
(* C11 amended: the round trip holds for every non-negative a with every   *)
(* radix r in 2..36, and for a negative a with radix 10.                   *)
(***************************************************************************)
StringRoundTripUnsignedOrDecimal ==
  (op = "toString" /\ n \in 2..36 /\ (~x.sign \/ n = 10)) =>
    IsString(text) /\ __fromString(text.chars, n) = x

\* A negative two-digit value written and read back in decimal.
StringRoundTripWitness ==
  /\ op = "toString" /\ n = 10 /\ x.sign /\ Len(x.digits) = 2
  /\ IsString(text) /\ __fromString(text.chars, n) = x

\* The exponent of the last call, and whether it is one the claims about
\* exponentiate cover: non-negative, at most one digit.
ExpValue == IF Len(y.digits) = 0 THEN 0 ELSE y.digits[1]
OneDigitExponent == ~y.sign /\ Len(y.digits) <= 1

\* res is x to the power y: multiplied out when the exponent is small, and
\* read off the base when it is 0, 1 or -1 (1 to any power is 1, -1 to an
\* odd power is -1, 0 to a positive power is 0).
PowerExact ==
  /\ Canonical(res)
  /\ IF ExpValue <= MaxShift
     THEN IntEq(IntOf(res), IF x.sign /\ ExpValue % 2 = 1
                            THEN IntNeg(IntPower(IntAbs(x), ExpValue))
                            ELSE IntPower(IntAbs(x), ExpValue))
     ELSE IF Len(x.digits) = 0 THEN res = __zero
     ELSE /\ x.digits = <<1>>
          /\ res = __oneDigit(1, x.sign /\ ExpValue % 2 = 1)

(***************************************************************************)
(* C12 as stated: for every x and every non-negative one-digit exponent y, *)
(* exponentiate(x, y) is the exact integer x^y, through the fast paths     *)
(* and through square-and-multiply alike.                                  *)
(***************************************************************************)
PowerExactForEveryExponent ==
  (op = "exponentiate" /\ OneDigitExponent) => IsValue(res) /\ PowerExact

\* x^y surely needs more than MAX_LENGTH digits: |x| >= 2^(BitLen(x) - 1), so
\* x^y has more than (BitLen(x) - 1) * y bits.
PowerTooBig ==
  /\ BitLen(x) > 1
  /\ ExpValue >= (30 * __kMaxLength + BitLen(x) - 2) \div (BitLen(x) - 1)

(***************************************************************************)
(* C12 amended: for every x and every non-negative one-digit exponent y,   *)
(* exponentiate(x, y) returns the exact integer x^y or throws a            *)
(* RangeError; it throws only for |x| >= 2 and a y above MAX_LENGTH        *)
(* divided by the digit count of x, and always when x^y needs more than    *)
(* MAX_LENGTH digits.                                                      *)
(***************************************************************************)
PowerExactWithinMaxLength ==
  (op = "exponentiate" /\ OneDigitExponent) =>
    /\ IsValue(res) => PowerExact
    /\ ~IsValue(res) =>
         /\ res = Throw("RangeError")
         /\ BitLen(x) > 1
         /\ ExpValue > __kMaxLength \div Len(x.digits)
    /\ PowerTooBig => ~IsValue(res)

\* A negative two-digit base cubed: one squaring and one multiplication.
PowerWitness ==
  /\ op = "exponentiate" /\ x.sign /\ Len(x.digits) = 2 /\ y = __oneDigit(3, FALSE)
  /\ res.sign /\ Len(res.digits) >= 4 /\ PowerExact

\* The comparisons of two BigInts, and what the one last called must have
\* returned given the order of the integers x and y.
Comparisons ==
  {"lessThan", "lessThanOrEqual", "greaterThan", "greaterThanOrEqual", "equal", "notEqual"}

Expected ==
  CASE op = "lessThan" -> IntLt(IntOf(x), IntOf(y))
    [] op = "lessThanOrEqual" -> IntLe(IntOf(x), IntOf(y))
    [] op = "greaterThan" -> IntLt(IntOf(y), IntOf(x))
    [] op = "greaterThanOrEqual" -> IntLe(IntOf(y), IntOf(x))
    [] op = "equal" -> IntEq(IntOf(x), IntOf(y))
    [] op = "notEqual" -> ~IntEq(IntOf(x), IntOf(y))

\* How many of the three hold.
Holding(lt, eq, gt) ==
  (IF lt THEN 1 ELSE 0) + (IF eq THEN 1 ELSE 0) + (IF gt THEN 1 ELSE 0)

(***************************************************************************)
(* C13: comparing two BigInts is a total order that agrees with their      *)
(* integers: exactly one of lessThan, equal and greaterThan holds, the     *)
(* comparison of (x, y) is the opposite of that of (y, x), equal holds     *)
(* exactly for the same integer and is the negation of notEqual, and       *)
(* lessThanOrEqual / greaterThanOrEqual negate greaterThan / lessThan.     *)
(***************************************************************************)
ComparisonTotalOrder ==
  op \in Comparisons =>
    /\ res = Boolean(Expected)
    /\ Holding(lessThan(x, y), equal(x, y), greaterThan(x, y)) = 1
    /\ __compareToBigInt(x, y) = 0 - __compareToBigInt(y, x)
    /\ equal(x, y) <=> IntEq(IntOf(x), IntOf(y))
    /\ equal(x, y) <=> ~notEqual(x, y)
    /\ lessThan(x, y) <=> IntLt(IntOf(x), IntOf(y))
    /\ lessThanOrEqual(x, y) <=> ~greaterThan(x, y)
    /\ greaterThanOrEqual(x, y) <=> ~lessThan(x, y)

\* Two negative two-digit values that differ in the low digit only.
ComparisonWitness ==
  /\ op = "lessThan" /\ res = Boolean(TRUE)
  /\ x.sign /\ y.sign /\ Len(x.digits) = 2 /\ Len(y.digits) = 2
  /\ x.digits[2] = y.digits[2] /\ x.digits[1] > y.digits[1]

\* The unsigned integer that the eight bytes at the view's offset spell in
\* the view's byte order.
ByteWeight(k) == IF view.littleEndian THEN 8 * k ELSE 8 * (7 - k)
RECURSIVE BytesInt(_)
BytesInt(k) ==
  IF k = 8 THEN <<>>
  ELSE IntAdd(IntMul(IntNum(view.bytes[view.byteOffset + k + 1]), IntPow2(ByteWeight(k))),
              BytesInt(k + 1))

\* What the two reads give on the view as the last call left it.
ReadUint64 == DataViewGetBigUint64(view.bytes, view.byteOffset, view.littleEndian)
ReadInt64 == DataViewGetBigInt64(view.bytes, view.byteOffset, view.littleEndian)

Writes == {"DataViewSetBigUint64", "DataViewSetBigInt64"}

(***************************************************************************)
(* C14: after DataViewSetBigUint64 or DataViewSetBigInt64 wrote v, reading *)
(* at the same offset with the same flag gives asUintN(64, v) unsigned and *)
(* asIntN(64, v) signed; the digits read are the low 30 bits, the next 30  *)
(* and the top 4 of the 64 bits in the buffer, which are v modulo 2^64;    *)
(* and no byte outside the eight at the offset has changed.                *)
(***************************************************************************)
BridgeRoundTrip ==
  op \in Writes =>
    /\ Len(view.bytes) = Len(before)
    /\ \A k \in 1..Len(before) :
         (k <= view.byteOffset \/ k > view.byteOffset + 8) => view.bytes[k] = before[k]
    /\ res = Undefined =>
         /\ ReadUint64 = asUintN(64, x)
         /\ ReadInt64 = asIntN(64, x)
         /\ Canonical(ReadUint64) /\ ~ReadUint64.sign
         /\ Len(ReadUint64.digits) <= 3
         /\ Len(ReadUint64.digits) = 3 => ReadUint64.digits[3] < 16
         /\ IntEq(IntOf(ReadUint64), BytesInt(0))
         /\ IntDivisibleByPow2(IntSub(IntOf(ReadUint64), IntOf(x)), 64)

\* A negative two-digit value written little-endian in the middle of the
\* buffer: all 64 bits matter and the signed read gives it back.
BridgeWitness ==
  /\ op = "DataViewSetBigInt64" /\ res = Undefined
  /\ x.sign /\ Len(x.digits) = 2 /\ view.littleEndian /\ view.byteOffset = 4
  /\ Len(ReadUint64.digits) = 3 /\ ReadInt64 = x /\ view.bytes # before

\* The operations that compute a BigInt from BigInts.
Computing ==
  {"add", "subtract", "multiply", "divide", "remainder", "exponentiate",
   "unaryMinus", "leftShift", "signedRightShift", "asIntN", "asUintN"}

(***************************************************************************)
(* C15 as stated: every operation that computes a BigInt returns a new     *)
(* object, never the object that was passed as an operand.                 *)
(***************************************************************************)
ResultIsNewObject ==
  (op \in Computing /\ IsValue(res)) => origin = "new"

IsZero(v) == Len(v.digits) = 0
IsOne(v) == v = __oneDigit(1, FALSE)

\* x lies in [-2^(n-1), 2^(n-1)), for n > 0.
FitsSigned ==
  \/ BitLen(x) < n
  \/ x.sign /\ BitLen(x) = n /\ IntEq(IntAbs(x), IntPow2(n - 1))

\* The calls whose result is their first operand: one for which the
\* operation changes nothing.
GivesFirst ==
  CASE op = "unaryMinus" -> IsZero(x)
    [] op \in {"add", "subtract"} -> IsZero(y)
    [] op = "multiply" -> IsZero(x)
    [] op = "divide" -> IsOne(y) /\ ~IsZero(x)
    [] op = "remainder" -> ~IsZero(y) /\ IntLt(IntAbs(x), IntAbs(y))
    [] op = "exponentiate" ->
         /\ ~y.sign /\ ~IsZero(y)
         /\ \/ IsZero(x) \/ IsOne(x) \/ IsOne(y)
            \/ x = MinusOne /\ y.digits[1] % 2 = 1
    [] op \in {"leftShift", "signedRightShift"} -> IsZero(x) \/ IsZero(y)
    [] op = "asIntN" -> IsZero(x) \/ (n > 0 /\ FitsSigned)
    [] op = "asUintN" -> IsZero(x) \/ (n > 0 /\ ~x.sign /\ BitLen(x) <= n)

\* The calls whose result is their second operand.
GivesSecond ==
  CASE op = "add" -> IsZero(x) /\ ~IsZero(y)
    [] op = "multiply" -> ~IsZero(x) /\ IsZero(y)
    [] OTHER -> FALSE

(***************************************************************************)
(* C15 amended: every operation that computes a BigInt returns a new       *)
(* object except where the result is an operand as it stands; there it     *)
(* returns that operand's object, unchanged.                               *)
(***************************************************************************)
ResultIsNewObjectOrOperand ==
  (op \in Computing /\ IsValue(res)) =>
    /\ origin = "x" <=> GivesFirst
    /\ origin = "y" <=> GivesSecond
    /\ origin = "x" => res = x
    /\ origin = "y" => res = y

\* A division of a negative two-digit value by -3: a new object.
NewObjectWitness ==
  /\ op = "divide" /\ x.sign /\ Len(x.digits) = 2 /\ y = __oneDigit(3, TRUE)
  /\ IsValue(res) /\ ~res.sign /\ origin = "new"

DivisionByZeroThrows ==
  (op \in {"divide", "remainder"} /\ IsZero(y)) => res = Throw("RangeError")

\* Zero divided by zero.
DivisionByZeroWitness ==
  /\ op = "divide" /\ IsZero(x) /\ IsZero(y) /\ res = Throw("RangeError")

(***************************************************************************)
(* C18 as stated: exponentiate throws a RangeError whenever y is negative  *)
(* or has more than one digit, for every base x, 0, 1 and -1 included.     *)
(***************************************************************************)
BadExponentThrowsForEveryBase ==
  (op = "exponentiate" /\ (y.sign \/ Len(y.digits) > 1)) => res = Throw("RangeError")

(***************************************************************************)
(* C18 amended: exponentiate throws a RangeError whenever y is negative,   *)
(* for every base x, and whenever y has more than one digit and |x| >= 2;  *)
(* for such a y and x in {0, 1, -1} it returns x^y: 0, 1, and for -1 the   *)
(* value 1 or -1 as y is even or odd.                                      *)
(***************************************************************************)
BadExponentThrowsForBigBase ==
  (op = "exponentiate" /\ (y.sign \/ Len(y.digits) > 1)) =>
    IF y.sign \/ BitLen(x) > 1 THEN res = Throw("RangeError")
    ELSE IF IsZero(x) THEN res = __zero
    ELSE res = __oneDigit(1, x.sign /\ y.digits[1] % 2 = 1)

\* A two-digit base and a two-digit exponent.
BadExponentWitness ==
  /\ op = "exponentiate" /\ ~y.sign /\ Len(y.digits) = 2 /\ Len(x.digits) = 2
  /\ res = Throw("RangeError")

(***************************************************************************)
(* C19: asIntN(n, x) and asUintN(n, x) throw a RangeError for every width  *)
(* n below zero, whatever x is.                                            *)
(***************************************************************************)
InvalidWidthThrows ==
  (op \in {"asIntN", "asUintN"} /\ n < 0) => res = Throw("RangeError")

\* What the code does instead: a zero x comes back before n is looked at,
\* and every other x meets the check.
InvalidWidthThrowsUnlessZero ==
  (op \in {"asIntN", "asUintN"} /\ n < 0) =>
    IF IsZero(x) THEN res = x /\ origin = "x" ELSE res = Throw("RangeError")

InvalidWidthWitness ==
  /\ op = "asUintN" /\ n < 0 /\ x.sign /\ Len(x.digits) = 2
  /\ res = Throw("RangeError")

\* The integer that the last call should have produced, for the operations
\* whose result can be longer than their operands.
ExactResult ==
  CASE op = "add" -> IntAdd(IntOf(x), IntOf(y))
    [] op = "subtract" -> IntSub(IntOf(x), IntOf(y))
    [] op = "multiply" -> IntMul(IntOf(x), IntOf(y))
    [] op = "bitwiseNot" -> IntSub(IntNeg(IntOf(x)), IntNum(1))

\* |p| >= 2^(30 * MAX_LENGTH): p does not fit in MAX_LENGTH digits.
TooLong(p) ==
  \/ IntLe(IntPow2(30 * __kMaxLength), p)
  \/ IntLe(p, IntNeg(IntPow2(30 * __kMaxLength)))

(***************************************************************************)
(* C20: no operation returns a value of more than MAX_LENGTH digits, and   *)
(* add, subtract, multiply and bitwiseNot throw a RangeError when their    *)
(* exact result needs more.                                                *)
(***************************************************************************)
LengthBound ==
  /\ IsValue(res) => Len(res.digits) <= __kMaxLength
  /\ (op \in {"add", "subtract", "multiply", "bitwiseNot"} /\ TooLong(ExactResult)) =>
       res = Throw("RangeError")

\* The same without bitwiseNot.
LengthBoundButNot ==
  op # "bitwiseNot" => LengthBound

\* A sum of two values of full length that needs one digit more.
LengthBoundWitness ==
  /\ op = "add" /\ Len(x.digits) = __kMaxLength /\ Len(y.digits) = __kMaxLength
  /\ TooLong(ExactResult) /\ res = Throw("RangeError")

(***************************************************************************)
(* How a string handed to BigInt reads: leading whitespace, a sign, a base *)
(* prefix, the longest run of digits of the radix, and what is left.       *)
(***************************************************************************)
FirstNonWhitespace(s) ==
  CHOOSE i \in 0..Len(s) :
    /\ \A k \in 1..i : __isWhitespace(s[k])
    /\ (i < Len(s) => ~__isWhitespace(s[i + 1]))

HasSign(s) == FirstNonWhitespace(s) < Len(s) /\ s[FirstNonWhitespace(s) + 1] \in {43, 45}

AfterSign(s) == FirstNonWhitespace(s) + (IF HasSign(s) THEN 1 ELSE 0)

\* The radix a prefix 0x, 0o or 0b announces; 10 without a prefix.
PrefixRadix(s) ==
  IF AfterSign(s) + 2 <= Len(s) /\ s[AfterSign(s) + 1] = 48
  THEN IF s[AfterSign(s) + 2] \in {88, 120} THEN 16
       ELSE IF s[AfterSign(s) + 2] \in {79, 111} THEN 8
       ELSE IF s[AfterSign(s) + 2] \in {66, 98} THEN 2
       ELSE 10
  ELSE 10

DigitsStart(s) == AfterSign(s) + (IF PrefixRadix(s) = 10 THEN 0 ELSE 2)

\* The value of a digit character, 36 for any other character.
CharValue(c) ==
  IF c \in 48..57 THEN c - 48
  ELSE IF c \in 97..122 THEN c - 87
  ELSE IF c \in 65..90 THEN c - 55
  ELSE 36

DigitsEnd(s) ==
  CHOOSE e \in DigitsStart(s)..Len(s) :
    /\ \A k \in (DigitsStart(s) + 1)..e : CharValue(s[k]) < PrefixRadix(s)
    /\ (e < Len(s) => CharValue(s[e + 1]) >= PrefixRadix(s))

\* Something other than whitespace follows the digits.
TrailingGarbage(s) == \E k \in (DigitsEnd(s) + 1)..Len(s) : ~__isWhitespace(s[k])

\* At least one digit, and only whitespace after the digits.
TrailingBlank(s) ==
  DigitsEnd(s) > DigitsStart(s) /\ DigitsEnd(s) < Len(s) /\ ~TrailingGarbage(s)

(***************************************************************************)
(* C22: a string with anything but whitespace after its digits is refused  *)
(* (__fromString gives null, BigInt throws SyntaxError); whitespace alone  *)
(* after at least one digit is accepted and the string parses as it does   *)
(* without that whitespace.                                                *)
(***************************************************************************)
TrailingGarbageRejected ==
  (op = "BigInt" /\ IsString(text)) =>
    /\ TrailingGarbage(text.chars) =>
         res = Throw("SyntaxError") /\ __fromString(text.chars, 0) = null
    /\ TrailingBlank(text.chars) =>
         /\ __fromString(text.chars, 0)
              = __fromString(SubSeq(text.chars, 1, DigitsEnd(text.chars)), 0)
         /\ (~HasSign(text.chars) \/ PrefixRadix(text.chars) = 10) => IsValue(res)

\* "12 \u00a03": digits, a whitespace run, then a digit again.
TrailingGarbageWitness ==
  /\ op = "BigInt" /\ IsString(text) /\ TrailingGarbage(text.chars)
  /\ DigitsEnd(text.chars) > DigitsStart(text.chars)
  /\ __isWhitespace(text.chars[DigitsEnd(text.chars) + 1])
  /\ res = Throw("SyntaxError")

RECURSIVE RunValue(_, _, _, _, _)
\* The integer written by the characters from + 1 .. to of s in the radix.
RunValue(s, from, to, radix, acc) ==
  IF from >= to \/ Len(acc) < 0 THEN acc
  ELSE RunValue(s, from + 1, to, radix,
                IntReduce(IntAdd(IntMul(acc, IntNum(radix)), IntNum(CharValue(s[from + 1])))))

\* The integer a string denotes: its digit run in the radix of its prefix,
\* negated after a '-'.
Denoted(s) ==
  IF HasSign(s) /\ s[AfterSign(s)] = 45
  THEN IntNeg(RunValue(s, DigitsStart(s), DigitsEnd(s), PrefixRadix(s), IntNum(0)))
  ELSE RunValue(s, DigitsStart(s), DigitsEnd(s), PrefixRadix(s), IntNum(0))

\* A string with at least one digit and nothing but whitespace after them.
WellFormed(s) == DigitsEnd(s) > DigitsStart(s) /\ ~TrailingGarbage(s)

HasPrefix(s) == DigitsStart(s) > AfterSign(s)

(***************************************************************************)
(* C23 as stated: with no radix given, an optional sign, an optional base  *)
(* prefix and at least one digit parse to the signed value in the radix of *)
(* the prefix.                                                             *)
(***************************************************************************)
SignedParsesWithEveryPrefix ==
  (op = "BigInt" /\ IsString(text) /\ WellFormed(text.chars)) =>
    IsValue(res) /\ IntEq(IntOf(res), Denoted(text.chars))

(***************************************************************************)
(* C23 amended: with no radix given, an optional sign and at least one     *)
(* decimal digit, or a base prefix without a sign and at least one digit   *)
(* of its radix, parse to the value denoted; a sign before a base prefix   *)
(* is refused; and a sign before decimal digits is accepted as well when   *)
(* radix 10 is given.                                                      *)
(***************************************************************************)
SignedParsesWithoutPrefix ==
  (op = "BigInt" /\ IsString(text)) =>
    /\ (WellFormed(text.chars) /\ ~(HasSign(text.chars) /\ HasPrefix(text.chars))) =>
         /\ IsValue(res) /\ IntEq(IntOf(res), Denoted(text.chars))
         /\ Canonical(res)
         /\ ~HasPrefix(text.chars) => __fromString(text.chars, 10) = res
    /\ (HasSign(text.chars) /\ HasPrefix(text.chars)) => res = Throw("SyntaxError")

\* "-123456789012": a sign before decimal digits that fill two digits.
SignedParsesWitness ==
  /\ op = "BigInt" /\ IsString(text) /\ WellFormed(text.chars)
  /\ HasSign(text.chars) /\ ~HasPrefix(text.chars)
  /\ IsValue(res) /\ res.sign /\ Len(res.digits) = 2
  /\ IntEq(IntOf(res), Denoted(text.chars))

\* Whitespace, at least one character of it, is all that s holds after
\* position i.
BlankAfter(s, i) == i < Len(s) /\ \A k \in (i + 1)..Len(s) : __isWhitespace(s[k])

OppositeAmount == JSBI(~y.sign, y.digits)

(***************************************************************************)
(* C30: with a non-zero amount n, leftShift(x, n) gives what               *)
(* signedRightShift(x, -n) gives and signedRightShift(x, n) what           *)
(* leftShift(x, -n) gives, value or RangeError alike; shifting zero, or    *)
(* shifting by zero, gives x and never an error.                           *)
(***************************************************************************)
ShiftDirection ==
  /\ (op = "leftShift" /\ ~IsZero(y)) => res = signedRightShift(x, OppositeAmount)
  /\ (op = "signedRightShift" /\ ~IsZero(y)) => res = leftShift(x, OppositeAmount)
  /\ (op \in {"leftShift", "signedRightShift"} /\ (IsZero(x) \/ IsZero(y))) => res = x

\* A negative value shifted to the left by a negative amount: the digits
\* move to the right and the result is rounded down.
ShiftDirectionWitness ==
  /\ op = "leftShift" /\ y.sign /\ x.sign /\ Len(x.digits) = 2
  /\ IsValue(res) /\ res # x /\ Len(res.digits) = 1
  /\ res = signedRightShift(x, OppositeAmount)

\* The characters of the last toString result after its sign.
Body == IF Len(text.chars) > 0 /\ text.chars[1] = 45 THEN Tail(text.chars) ELSE text.chars

\* 2^(L-1), the least value of bit length L.
LeastOfLength(L) ==
  JSBI(FALSE, [k \in 1..((L - 1) \div 30 + 1) |->
                 IF k = (L - 1) \div 30 + 1 THEN Pow2((L - 1) % 30) ELSE 0])

\* The conqueror of a value depends on its bit length and the radix only.
\* The bit lengths looked at in a state: that of x, and with the call on
\* zero every bit length of a value of more than one digit.
SplitLengths ==
  IF IsZero(x) THEN 31..(30 * (MaxLen + 1))
  ELSE IF Len(x.digits) > 1 THEN {BitLen(x)} ELSE {}

\* radix ^ secondHalfChars is at most the least value of bit length L: the
\* quotient of any value of that length by the conqueror is not zero.
ConquerorFits(L, radix) ==
  IntLe(IntPower(IntNum(radix), GenericSecondHalfChars(LeastOfLength(L), radix)),
        IntOf(LeastOfLength(L)))

(***************************************************************************)
(* C28: toString(x, radix) with radix in 2..36 is "0" for zero; otherwise  *)
(* a '-' exactly when x is negative, then the digits of |x| in the radix,  *)
(* written with 0-9 and a-z, the first of them not '0'.  In the divide and *)
(* conquer path the conqueror never exceeds a value of more than one       *)
(* digit, so its quotient is not zero, and the string is longer than the   *)
(* low half's secondHalfChars characters.                                  *)
(***************************************************************************)
ToStringCanonical ==
  (op = "toString" /\ n \in 2..36) =>
    /\ IsString(text)
    /\ IsZero(x) => text.chars = <<48>>
    /\ ~IsZero(x) =>
         /\ Len(text.chars) > 0 /\ (text.chars[1] = 45 <=> x.sign)
         /\ Len(Body) > 0 /\ Body[1] # 48
         /\ \A k \in 1..Len(Body) :
              Body[k] \in (48..57) \cup (97..122) /\ CharValue(Body[k]) < n
         /\ IntEq(RunValue(Body, 0, Len(Body), n, IntNum(0)), IntAbs(x))
    /\ BitAnd(n, n - 1) # 0 =>
         /\ \A L \in SplitLengths : ConquerorFits(L, n)
         /\ Len(x.digits) > 1 => Len(Body) > GenericSecondHalfChars(x, n)

\* A negative two-digit value in radix 3: the conqueror has two digits and
\* the low half is converted by a further split.
ToStringCanonicalWitness ==
  /\ op = "toString" /\ n = 3 /\ x.sign /\ Len(x.digits) = 2 /\ BitLen(x) = 60
  /\ IsString(text) /\ text.chars[1] = 45 /\ Len(Body) > 30
  /\ IntEq(RunValue(Body, 0, Len(Body), n, IntNum(0)), IntAbs(x))

(***************************************************************************)
(* The long division round by round.                                       *)
(***************************************************************************)
RECURSIVE HalfValue(_, _, _)
\* The integer SUM halfDigit(d, from + i) * 2^(15 i) over i < count.
HalfValue(d, from, count) ==
  IF count = 0 THEN <<>>
  ELSE IntReduce(IntAdd(IntNum(__halfDigit(d, from)),
                        IntMul(IntPow2(15), HalfValue(d, from + 1, count - 1))))

\* The quotient half-digit a round for position j left behind: in the
\* pending high half for an odd j, in the low half of digit j / 2 otherwise.
RecordedHalfDigit(st, j) ==
  IF j % 2 = 1 THEN st.halfDigitBuffer \div 32768
  ELSE st.q[j \div 2 + 1] % 32768

\* One round took st to nx: the window of k + 1 half-digits of u at j held
\* W, and now holds W - qd * V, which lies in [0, V), for the recorded
\* half-digit qd and the normalised divisor V; nothing below or above the
\* window moved, no branch threw and at most one add-back was taken.
RoundExact(st, nx, vd, j, k) ==
  /\ nx.err = "none"
  /\ RecordedHalfDigit(nx, j) \in 0..kHalfMask
  /\ IntEq(HalfValue(st.u, j, k + 1),
           IntAdd(IntMul(IntNum(RecordedHalfDigit(nx, j)), HalfValue(vd, 0, k)),
                  HalfValue(nx.u, j, k + 1)))
  /\ IntLt(HalfValue(nx.u, j, k + 1), HalfValue(vd, 0, k))
  /\ Len(nx.u) = Len(st.u)
  /\ \A i \in 0..(2 * Len(st.u) - 1) :
       (i < j \/ i > j + k) => __halfDigit(nx.u, i) = __halfDigit(st.u, i)
  /\ nx.addBacks - st.addBacks \in {0, 1}

RECURSIVE RoundsExact(_, _, _, _, _)
\* Every round from position j down to 0 is exact.
RoundsExact(st, vd, j, k, n2) ==
  IF j < 0 THEN TRUE
  ELSE IF ~RoundExact(st, DivLargeStep(st, vd, j, k, n2), vd, j, k) THEN FALSE
  ELSE RoundsExact(DivLargeStep(st, vd, j, k, n2), vd, j - 1, k, n2)

\* The last call was a divide or a remainder that went to __absoluteDivLarge.
TakesLongDivision ==
  /\ op \in {"divide", "remainder"} /\ Len(y.digits) > 0
  /\ __absoluteCompare(x, y) >= 0
  /\ ~(Len(y.digits) = 1 /\ y.digits[1] <= kHalfMask)

LongDivisor == __halfDigitLength(y.digits)
LongShift == __clz15(__halfDigit(y.digits, LongDivisor - 1))

(***************************************************************************)
(* C27: in __absoluteDivLarge, for a divisor of two or more half-digits    *)
(* and |dividend| >= |divisor|, every round j leaves the exact quotient    *)
(* half-digit recorded and the window of u at j holding a value in         *)
(* [0, normalised divisor); one add-back always suffices; at the end u is  *)
(* |dividend| mod |divisor| and q is floor(|dividend| / |divisor|).        *)
(***************************************************************************)
LongDivisionRounds ==
  TakesLongDivision =>
    /\ LongDivisor >= 2
    /\ __halfDigit(DivLargeNormalised(y, LongShift), LongDivisor - 1) >= 16384
    /\ RoundsExact(DivLargeBuffers(x, LongDivisor,
                                   __halfDigitLength(x.digits) - LongDivisor,
                                   LongShift),
                   DivLargeNormalised(y, LongShift),
                   __halfDigitLength(x.digits) - LongDivisor, LongDivisor,
                   Len(y.digits))
    /\ __absoluteDivLarge(x, y).err = "none"
    /\ IntEq(IntAbs(x),
             IntAdd(IntMul(DigitsToLimbs(__absoluteDivLarge(x, y).q, 1), IntAbs(y)),
                    DigitsToLimbs(__absoluteDivLarge(x, y).u, 1)))
    /\ IntLt(DigitsToLimbs(__absoluteDivLarge(x, y).u, 1), IntAbs(y))

\* A long division of more than one round in which a round took the
\* add-back branch, the divisor needing normalisation.
LongDivisionWitness ==
  /\ TakesLongDivision /\ op = "divide"
  /\ __halfDigitLength(x.digits) - LongDivisor >= 1
  /\ LongShift > 0
  /\ __absoluteDivLarge(x, y).addBacks > 0
  /\ IsValue(res) /\ res # __zero

(***************************************************************************)
(* Numbers as the reals they stand for.                                    *)
(***************************************************************************)
\* Bit j of the 53-bit significand of a normal number d, whose value is
\* SUM SignificandBit(d, j) * 2^(j + exponent - 1075); no bit below j = 0.
SignificandBit(d, j) ==
  IF j < 0 THEN 0 ELSE IF j = 52 THEN 1 ELSE MantissaBit(d, j)

\* Bit i of |v|, which is SUM ValueBit(v, i) * 2^i.
ValueBit(v, i) == (v.digits[i \div 30 + 1] \div Pow2(i % 30)) % 2

\* d is finite and its value is an integer: it is a zero, or normal with no
\* significand bit set below the units; the subnormals are not.
IntegerValued(d) ==
  IF d.exponent = 2047 THEN FALSE
  ELSE IF d.exponent = 0 THEN d.high = 0 /\ d.low = ZeroWord
  ELSE IF d.exponent < 1023 THEN FALSE
  ELSE \A j \in 0..52 : j + d.exponent < 1075 => SignificandBit(d, j) = 0

\* The canonical value v is the integer the integer-valued number d stands
\* for: same sign, and bit i of |v| is the significand bit of weight 2^i.
Encodes(v, d) ==
  IF d.exponent = 0 THEN v = __zero
  ELSE /\ v.sign = d.sign /\ BitLen(v) = d.exponent - 1022
       /\ \A i \in 0..(BitLen(v) - 1) :
            ValueBit(v, i) = SignificandBit(d, i + 1075 - d.exponent)

\* c === d for two numbers neither of which is NaN.
SameNumber(c, d) ==
  IF c.exponent = 0 /\ c.high = 0 /\ c.low = ZeroWord
  THEN d.exponent = 0 /\ d.high = 0 /\ d.low = ZeroWord
  ELSE c = d

(***************************************************************************)
(* C24: for every finite integer-valued number d, positive or negative,    *)
(* of one digit or more, up to the largest finite number, BigInt(d) is the *)
(* canonical value that encodes exactly d and toNumber(BigInt(d)) is d;    *)
(* for NaN, the infinities and every non-integer d it throws RangeError.   *)
(***************************************************************************)
NumberRoundTrip ==
  op = "BigIntNumber" =>
    IF IntegerValued(num)
    THEN /\ Canonical(res) /\ Encodes(res, num)
         /\ SameNumber(toNumber(res, scratch).value, num)
    ELSE res = Throw("RangeError")

\* The largest finite number, negated: 35 digits, 53 of its bits set.
NumberRoundTripWitness ==
  /\ op = "BigIntNumber" /\ num = Number(TRUE, 2046, 1048575, OnesWord)
  /\ IsValue(res) /\ res.sign /\ Len(res.digits) = 35
  /\ toNumber(res, scratch).value = num

\* Bit j of the 52 mantissa bits taken from just below the top bit of v.
TopMantissaBit(v, j) ==
  IF BitLen(v) - 53 + j >= 0 THEN ValueBit(v, BitLen(v) - 53 + j) ELSE 0

\* The discarded low bits of v against half a unit of the mantissa.
DiscardedAboveHalf(v) ==
  /\ BitLen(v) >= 55 /\ ValueBit(v, BitLen(v) - 54) = 1
  /\ \E i \in 0..(BitLen(v) - 55) : ValueBit(v, i) = 1
DiscardedExactlyHalf(v) ==
  /\ BitLen(v) >= 54 /\ ValueBit(v, BitLen(v) - 54) = 1
  /\ \A i \in 0..(BitLen(v) - 55) : ValueBit(v, i) = 0

\* Round to nearest, ties to even.
MantissaIncremented(v) ==
  DiscardedAboveHalf(v) \/ (DiscardedExactlyHalf(v) /\ TopMantissaBit(v, 0) = 1)
MantissaOverflows(v) ==
  MantissaIncremented(v) /\ \A j \in 0..51 : TopMantissaBit(v, j) = 1
RoundedMantissaBit(v, j) ==
  IF MantissaIncremented(v) /\ \A i \in 0..(j - 1) : TopMantissaBit(v, i) = 1
  THEN 1 - TopMantissaBit(v, j) ELSE TopMantissaBit(v, j)
RoundedExponent(v) == BitLen(v) - 1 + (IF MantissaOverflows(v) THEN 1 ELSE 0)

\* C25: toNumber rounds to nearest, ties to even: the 53-bit mantissa taken
\* from the top bit is incremented exactly when the discarded low bits
\* exceed half a unit, or equal half a unit with the mantissa's low bit set;
\* a mantissa overflow increments the exponent; the result is +-Infinity
\* exactly when the bit length exceeds 1024 or the exponent after rounding
\* exceeds 1023.
ToNumberRoundsToNearestEven ==
  (op = "toNumber" /\ x # __zero) =>
    IF BitLen(x) > 1024 \/ RoundedExponent(x) > 1023
    THEN num = Infinity(x.sign)
    ELSE /\ num.sign = x.sign
         /\ num.exponent = RoundedExponent(x) + 1023
         /\ \A j \in 0..51 : MantissaBit(num, j) = RoundedMantissaBit(x, j)
ToNumberRoundsWitness ==
  /\ op = "toNumber" /\ BitLen(x) = 1024 /\ x.sign
  /\ DiscardedExactlyHalf(x) /\ MantissaOverflows(x)
  /\ num = Infinity(TRUE)
\* The calls that reach the conversion buffer.
BufferCalls == {"toNumber", "BigIntNumber", "LT", "LE", "GT", "GE", "EQ", "NE"}

\* Contents the buffer could hold when a call starts: as the module load
\* leaves it, with every bit set, and as the previous call left it.
BufferContents == {LoadScratch, Number(TRUE, 2047, 1048575, OnesWord), stale}

\* The call of the state made again on a buffer holding s: [out, scratch].
Replayed(s) ==
  IF op = "toNumber"
  THEN [out |-> toNumber(x, s).value, scratch |-> toNumber(x, s).scratch]
  ELSE IF op = "BigIntNumber" THEN BigIntNumber(num, s)
  ELSE IF op = "LT" THEN LT(x, num, n = 1, s)
  ELSE IF op = "LE" THEN LE(x, num, n = 1, s)
  ELSE IF op = "GT" THEN GT(x, num, n = 1, s)
  ELSE IF op = "GE" THEN GE(x, num, n = 1, s)
  ELSE IF op = "EQ" THEN EQ(x, num, n = 1, s)
  ELSE NE(x, num, n = 1, s)

\* C26: no state leaks between calls: a call on the conversion buffer gives
\* the result it would give on any other buffer contents, so the same
\* operation on equal arguments gives equal results whatever preceded it;
\* and the buffer it leaves is either untouched or wholly rewritten, every
\* byte read having been written earlier in the same call.
NoStateLeaks ==
  op \in BufferCalls =>
    \A s \in BufferContents :
      /\ Replayed(s).out = (IF op = "toNumber" THEN num ELSE res)
      /\ Replayed(s).scratch \in {s, scratch}
NoStateLeaksWitness ==
  /\ op = "toNumber" /\ Len(x.digits) > 1
  /\ stale # LoadScratch /\ scratch # stale
  /\ num = toNumber(x, LoadScratch).value
\* The buffers of __absoluteDivLarge fit the limit, so that new JSBI does
\* not throw before the first round.
LongDivisionAllocates ==
  /\ Len(x.digits) + 1 <= __kMaxLength
  /\ (LongDivisor + 2) \div 2 <= __kMaxLength

\* C21: no public operation throws the generic 'implementation bug' or
\* 'unreachable' Error, nor the 'out of bounds' RangeError of __inplaceSub:
\* no result and no string is an Error, and a long division whose buffers
\* were allocated returns a value.
NoImplementationBug ==
  /\ res.kind # "Error" /\ text.kind # "Error"
  /\ (TakesLongDivision /\ LongDivisionAllocates) => IsValue(res)
NoImplementationBugWitness ==
  /\ op = "LT" /\ n = 0 /\ BitLen(x) = 21 /\ ~x.sign
  /\ num = Number(FALSE, 1023 + 20, 0, WordOf(1))
  /\ __compareToDouble(x, num, stale) = Compared(-1, scratch)
  /\ res = Boolean(TRUE)
====
